---- MODULE Spec2Model ----
(***************************************************************************)
(* Model of the aisentinel-go-sdk governor package: the compiled-rule      *)
(* Evaluator, the TTL RuleCache, the audit stores and the Governor that    *)
(* ties them together with the offline replay queue.                       *)
(***************************************************************************)
EXTENDS Integers, Sequences, FiniteSets, TLC

\* ------------------------------------------------------------------------
\* Bounds of the model
\* ------------------------------------------------------------------------
MaxRules == 2          \* longest rule list of a rulepack
MaxTime == 3           \* last clock reading
CacheTTL == 1          \* Config.CacheTTL, in clock ticks
OfflineQueueSize == 2  \* Config.OfflineQueueSize

\* ------------------------------------------------------------------------
\* Data: rule definitions, rulepacks, payloads, contexts
\* ------------------------------------------------------------------------
RulepackIDs == {"local", "other"}

\* RuleDefinition{ID, Description, Pattern, Allow}
DefSecret == [ID |-> "rule-1", Description |-> "blocks secret", Pattern |-> "^secret", Allow |-> FALSE]
DefData == [ID |-> "rule-1", Description |-> "allows data", Pattern |-> "data$", Allow |-> TRUE]
DefBroken == [ID |-> "rule-2", Description |-> "broken", Pattern |-> "(", Allow |-> TRUE]

RuleDefinition == {DefSecret, DefData, DefBroken}

\* The sequences over S of length at most n that repeat no element.
RECURSIVE SeqsUpTo(_, _)
SeqsUpTo(S, n) ==
    IF n = 0 THEN {<<>>}
    ELSE LET shorter == SeqsUpTo(S, n - 1)
             extend(s) == {Append(s, x) : x \in {y \in S : \A j \in 1..Len(s) : s[j] # y}}
         IN shorter \cup UNION {extend(s) : s \in {t \in shorter : Len(t) = n - 1}}

RuleLists == SeqsUpTo(RuleDefinition, MaxRules)

\* Rulepack{ID, Rules}; Version and UpdatedAt take no part in any decision.
\* Rulepack "other" comes with the rule lists of at most one rule.
Rulepack ==
    {[ID |-> "local", Rules |-> l] : l \in RuleLists}
    \cup {[ID |-> "other", Rules |-> l] : l \in SeqsUpTo(RuleDefinition, 1)}

\* regexp.Compile on the patterns above: "(" is a missing closing parenthesis.
Compiles(pattern) == pattern \in {"^secret", "data$"}

\* (*regexp.Regexp).MatchString for the compiled patterns above.
MatchString(pattern, str) ==
    CASE pattern = "^secret" -> str \in {"secret-data", "secret"}
      [] pattern = "data$" -> str \in {"secret-data", "public-data"}
      [] OTHER -> FALSE

\* json.RawMessage payloads, as their text.
PayloadSecret == "{\"rule-1\":\"secret-data\"}"
PayloadPublic == "{\"rule-1\":\"public-data\"}"
PayloadNumber == "{\"rule-1\":7}"
PayloadObject == "{}"
PayloadNotJSON == "{not json"
PayloadNone == ""

Payloads == {PayloadSecret, PayloadPublic, PayloadNumber,
             PayloadObject, PayloadNotJSON, PayloadNone}

JSONString(s) == [t |-> "string", s |-> s]
JSONNumber == [t |-> "number", s |-> ""]
EmptyDocument == [f \in {} |-> JSONNumber]

\* json.Unmarshal(payload, &document) into a map[string]any
Unmarshal(payload) ==
    CASE payload = PayloadSecret ->
            [err |-> FALSE, document |-> [f \in {"rule-1"} |-> JSONString("secret-data")]]
      [] payload = PayloadPublic ->
            [err |-> FALSE, document |-> [f \in {"rule-1"} |-> JSONString("public-data")]]
      [] payload = PayloadNumber ->
            [err |-> FALSE, document |-> [f \in {"rule-1"} |-> JSONNumber]]
      [] payload = PayloadObject ->
            [err |-> FALSE, document |-> EmptyDocument]
      [] OTHER ->
            [err |-> TRUE, document |-> EmptyDocument]

\* A context: -1 is never cancelled (context.Background()); n >= 0 is
\* cancelled once n rule checks have been made (0: cancelled from the start).
Background == -1
Contexts == {Background, 0, 1}
Done(ctx, checked) == ctx >= 0 /\ checked >= ctx

\* error values
Nil == [kind |-> "nil", arg |-> ""]
ErrCompile(ruleID) == [kind |-> "compile rule", arg |-> ruleID]
ErrParse == [kind |-> "json syntax", arg |-> ""]
ErrCancelled == [kind |-> "context canceled", arg |-> ""]


\* ------------------------------------------------------------------------
\* Evaluator: the compiled-rule table and rule evaluation
\* ------------------------------------------------------------------------
VARIABLES
    rules,      \* Evaluator.rules: rulepack id -> compiled rule list
    last        \* the last Evaluator call: its arguments and what it returned

\* Rule{ID, Description, Expression, Allow}: a compiled definition
Rule(def) ==
    [ID |-> def.ID, Description |-> def.Description, Expression |-> def.Pattern, Allow |-> def.Allow]

\* The loop of Preload: compile in order, stop at the first failure.
RECURSIVE CompileFrom(_, _, _)
CompileFrom(definitions, i, compiled) ==
    IF i > Len(definitions) THEN [err |-> Nil, rules |-> compiled]
    ELSE IF ~Compiles(definitions[i].Pattern)
         THEN [err |-> ErrCompile(definitions[i].ID), rules |-> compiled]
         ELSE CompileFrom(definitions, i + 1, Append(compiled, Rule(definitions[i])))

\* Preload with a slip: the rules compiled before the failure are committed.
PreloadPartial(table, rulepackID, definitions) ==
    LET c == CompileFrom(definitions, 1, <<>>)
    IN [err |-> c.err, rules |-> (rulepackID :> c.rules) @@ table]

\* Evaluator.Preload(rulepackID, definitions) on the table: the new table and the error.
Preload(table, rulepackID, definitions) ==
    LET c == CompileFrom(definitions, 1, <<>>)
    IN IF c.err # Nil
       THEN [err |-> c.err, rules |-> table]
       ELSE [err |-> Nil, rules |-> (rulepackID :> c.rules) @@ table]

\* The rule loop with a slip: a later matching rule overrides an earlier one.
RECURSIVE MatchLast(_, _, _, _)
MatchLast(ruleList, document, ctx, i) ==
    IF i > Len(ruleList)
    THEN [allowed |-> FALSE, reason |-> "no matching rule", err |-> Nil, checked |-> i - 1]
    ELSE IF Done(ctx, i - 1)
    THEN [allowed |-> FALSE, reason |-> "context cancelled", err |-> ErrCancelled, checked |-> i - 1]
    ELSE LET rest == MatchLast(ruleList, document, ctx, i + 1)
         IN IF /\ rest.reason = "no matching rule"
               /\ ruleList[i].ID \in DOMAIN document
               /\ document[ruleList[i].ID].t = "string"
               /\ MatchString(ruleList[i].Expression, document[ruleList[i].ID].s)
            THEN [allowed |-> ruleList[i].Allow, reason |-> ruleList[i].Description,
                  err |-> Nil, checked |-> rest.checked]
            ELSE rest

\* The rule loop with a slip: a field that holds no string ends the loop with
\* the rule's verdict instead of being skipped.
RECURSIVE MatchNonString(_, _, _, _)
MatchNonString(ruleList, document, ctx, i) ==
    IF i > Len(ruleList)
    THEN [allowed |-> FALSE, reason |-> "no matching rule", err |-> Nil, checked |-> i - 1]
    ELSE IF Done(ctx, i - 1)
    THEN [allowed |-> FALSE, reason |-> "context cancelled", err |-> ErrCancelled, checked |-> i - 1]
    ELSE IF /\ ruleList[i].ID \in DOMAIN document
            /\ \/ document[ruleList[i].ID].t # "string"
               \/ MatchString(ruleList[i].Expression, document[ruleList[i].ID].s)
    THEN [allowed |-> ruleList[i].Allow, reason |-> ruleList[i].Description,
          err |-> Nil, checked |-> i]
    ELSE MatchNonString(ruleList, document, ctx, i + 1)

\* The rule loop with a slip: the token is tested after the rule check, on
\* the way to the next rule, instead of before it.
RECURSIVE MatchThenDone(_, _, _, _)
MatchThenDone(ruleList, document, ctx, i) ==
    IF i > Len(ruleList)
    THEN [allowed |-> FALSE, reason |-> "no matching rule", err |-> Nil, checked |-> i - 1]
    ELSE IF /\ ruleList[i].ID \in DOMAIN document
            /\ document[ruleList[i].ID].t = "string"
            /\ MatchString(ruleList[i].Expression, document[ruleList[i].ID].s)
    THEN [allowed |-> ruleList[i].Allow, reason |-> ruleList[i].Description,
          err |-> Nil, checked |-> i]
    ELSE IF Done(ctx, i)
    THEN [allowed |-> FALSE, reason |-> "context cancelled", err |-> ErrCancelled, checked |-> i]
    ELSE MatchThenDone(ruleList, document, ctx, i + 1)

\* The rule loop of Evaluate from rule i on; checked counts the rules looked up.
RECURSIVE MatchFrom(_, _, _, _)
MatchFrom(ruleList, document, ctx, i) ==
    IF i > Len(ruleList)
    THEN [allowed |-> FALSE, reason |-> "no matching rule", err |-> Nil, checked |-> i - 1]
    ELSE IF Done(ctx, i - 1)
    THEN [allowed |-> FALSE, reason |-> "context cancelled", err |-> ErrCancelled, checked |-> i - 1]
    ELSE IF /\ ruleList[i].ID \in DOMAIN document
            /\ document[ruleList[i].ID].t = "string"
            /\ MatchString(ruleList[i].Expression, document[ruleList[i].ID].s)
    THEN [allowed |-> ruleList[i].Allow, reason |-> ruleList[i].Description,
          err |-> Nil, checked |-> i]
    ELSE MatchFrom(ruleList, document, ctx, i + 1)

\* The compiled list Evaluate iterates: the one in the table, compiled from
\* the pack only when the table has none for pack.ID.
LookupOrPreload(table, pack) ==
    IF pack.ID \in DOMAIN table
    THEN [err |-> Nil, rules |-> table]
    ELSE Preload(table, pack.ID, pack.Rules)

\* Evaluator.Evaluate with a slip: the payload is parsed first, before the
\* compiled list is looked up or compiled.
EvaluateParseFirst(table, ctx, pack, payload) ==
    LET parsed == IF payload # "" THEN Unmarshal(payload)
                  ELSE [err |-> FALSE, document |-> EmptyDocument]
        pre == LookupOrPreload(table, pack)
    IN IF parsed.err
       THEN [rules |-> table, allowed |-> FALSE, reason |-> "payload parse error",
             err |-> ErrParse, checked |-> 0]
       ELSE IF pre.err # Nil
       THEN [rules |-> pre.rules, allowed |-> FALSE, reason |-> "", err |-> pre.err, checked |-> 0]
       ELSE LET m == MatchFrom(pre.rules[pack.ID], parsed.document, ctx, 1)
            IN [rules |-> pre.rules, allowed |-> m.allowed, reason |-> m.reason,
                err |-> m.err, checked |-> m.checked]

\* Evaluator.Evaluate(ctx, pack, payload) on the table: the new table, the
\* returned (allowed, reason, err), and the number of rules checked.
Evaluate(table, ctx, pack, payload) ==
    LET pre == LookupOrPreload(table, pack)
        parsed == IF payload # "" THEN Unmarshal(payload)
                  ELSE [err |-> FALSE, document |-> EmptyDocument]
    IN IF pre.err # Nil
       THEN [rules |-> pre.rules, allowed |-> FALSE, reason |-> "", err |-> pre.err, checked |-> 0]
       ELSE IF parsed.err
       THEN [rules |-> pre.rules, allowed |-> FALSE, reason |-> "payload parse error",
             err |-> ErrParse, checked |-> 0]
       ELSE LET m == MatchFrom(pre.rules[pack.ID], parsed.document, ctx, 1)
            IN [rules |-> pre.rules, allowed |-> m.allowed, reason |-> m.reason,
                err |-> m.err, checked |-> m.checked]

NoCall ==
    [op |-> "none", ctx |-> Background, pack |-> [ID |-> "local", Rules |-> <<>>],
     payload |-> "", allowed |-> FALSE, reason |-> "", err |-> Nil, checked |-> 0]

\* NewEvaluator()
InitEval ==
    /\ rules = [id \in {} |-> <<>>]
    /\ last = NoCall

\* A caller runs e.Preload(rulepackID, definitions).
PreloadCall ==
    \E pack \in Rulepack :
        LET r == Preload(rules, pack.ID, pack.Rules)
        IN /\ rules' = r.rules
           /\ last' = [op |-> "Preload", ctx |-> Background, pack |-> pack,
                       payload |-> "", allowed |-> FALSE, reason |-> "",
                       err |-> r.err, checked |-> 0]

\* A caller runs e.Evaluate(ctx, pack, payload).
EvaluateCall ==
    \E ctx \in Contexts, pack \in Rulepack, payload \in Payloads :
        LET r == Evaluate(rules, ctx, pack, payload)
        IN /\ rules' = r.rules
           /\ last' = [op |-> "Evaluate", ctx |-> ctx, pack |-> pack, payload |-> payload,
                       allowed |-> r.allowed, reason |-> r.reason, err |-> r.err,
                       checked |-> r.checked]

evalVars == <<rules, last>>



\* The same, with Preload calls that leave no record: last is the last
\* Evaluate call, so that two Evaluate calls around a Preload can be compared.
PreloadBetween ==
    \E pack \in Rulepack :
        /\ rules' = Preload(rules, pack.ID, pack.Rules).rules
        /\ UNCHANGED last


\* ------------------------------------------------------------------------
\* RuleCache: the TTL cache and its clock
\* ------------------------------------------------------------------------
VARIABLES
    entries,    \* RuleCache.entries: key -> cacheEntry{value, expiresAt}
    now,        \* the reading of RuleCache.clock (time.Now)
    got,        \* the last RuleCache call: its arguments and what it returned
    written     \* per key: the last Set not followed by an Invalidate

\* time.Time{}: the zero time, for which IsZero holds
ZeroTime == 0

\* The rulepacks the control plane serves for "local": two versions.
PackV1 == [ID |-> "local", Rules |-> <<DefSecret>>]
PackV2 == [ID |-> "local", Rules |-> <<DefData>>]
NoPack == [ID |-> "", Rules |-> <<>>]

CachedValues == {PackV1, PackV2}

\* The variadic ttlOverride of Set: none, or one duration.
TTLOverrides == {<<>>, <<0>>, <<1>>}

\* RuleCache.expired with a slip: an entry is expired at its expiry instant.
expiredAtExpiry(entry, clock) == entry.expiresAt # ZeroTime /\ clock >= entry.expiresAt

\* RuleCache.expired(entry), with the clock reading it takes
expired(entry, clock) == entry.expiresAt # ZeroTime /\ clock > entry.expiresAt

\* The first half of Get, under the read lock: the entry if present and valid.
GetRead(cache, clock, key) ==
    IF key \in DOMAIN cache /\ ~expired(cache[key], clock)
    THEN [value |-> cache[key].value, ok |-> TRUE, present |-> TRUE]
    ELSE [value |-> NoPack, ok |-> FALSE, present |-> key \in DOMAIN cache]

\* The second half of Get with a slip: the key is deleted without a re-check.
GetEvictBlind(cache, clock, key) == [k \in DOMAIN cache \ {key} |-> cache[k]]

\* The second half of Get, under the write lock: re-check and delete.
GetEvict(cache, clock, key) ==
    IF key \in DOMAIN cache /\ expired(cache[key], clock)
    THEN [k \in DOMAIN cache \ {key} |-> cache[k]]
    ELSE cache

\* RuleCache.Get with a slip: a hit pushes the entry's expiry out by the
\* default TTL (a sliding expiration).
CacheGetRefreshing(cache, clock, key) ==
    LET r == GetRead(cache, clock, key)
    IN [entries |-> IF r.ok THEN [cache EXCEPT ![key].expiresAt = clock + CacheTTL]
                    ELSE IF r.present THEN GetEvict(cache, clock, key) ELSE cache,
        value |-> r.value, ok |-> r.ok]

\* RuleCache.Get(key), run without interference: the new entries and the result.
CacheGet(cache, clock, key) ==
    LET r == GetRead(cache, clock, key)
    IN [entries |-> IF ~r.ok /\ r.present THEN GetEvict(cache, clock, key) ELSE cache,
        value |-> r.value, ok |-> r.ok]

\* RuleCache.Set with a slip: a Set without an override on a key that is
\* stored keeps the expiry the entry had.
CacheSetKeepsExpiry(cache, clock, ttl, key, value, ttlOverride) ==
    LET d == IF Len(ttlOverride) > 0 THEN ttlOverride[1] ELSE ttl
    IN IF Len(ttlOverride) = 0 /\ key \in DOMAIN cache
       THEN [cache EXCEPT ![key].value = value]
       ELSE (key :> [value |-> value, expiresAt |-> clock + d]) @@ cache

\* RuleCache.Set(key, value, ttlOverride...) with the cache's default ttl
CacheSet(cache, clock, ttl, key, value, ttlOverride) ==
    LET d == IF Len(ttlOverride) > 0 THEN ttlOverride[1] ELSE ttl
    IN (key :> [value |-> value, expiresAt |-> clock + d]) @@ cache

\* RuleCache.Invalidate with a slip: only an expired entry is removed.
CacheInvalidateExpired(cache, key) ==
    IF key \in DOMAIN cache /\ expired(cache[key], now)
    THEN [k \in DOMAIN cache \ {key} |-> cache[k]]
    ELSE cache

\* RuleCache.Invalidate(key)
CacheInvalidate(cache, key) == [k \in DOMAIN cache \ {key} |-> cache[k]]

\* RuleCache.Len with a slip: only the entries that have not expired count.
CacheLenLive(cache) == Cardinality({k \in DOMAIN cache : ~expired(cache[k], now)})

\* RuleCache.Len()
CacheLen(cache) == Cardinality(DOMAIN cache)

\* The record of a call: at, the clock reading; before, Len() before it; had,
\* the key was stored before it; ttlOverride, that of a Set; prior, the
\* ttlOverride of the Set before it on the same key.
NoGet ==
    [op |-> "none", key |-> "local", value |-> NoPack, ok |-> FALSE, at |-> 0, before |-> 0,
     had |-> FALSE, ttlOverride |-> <<>>, prior |-> <<>>]
NotWritten ==
    [set |-> FALSE, value |-> NoPack, at |-> 0, ttl |-> 0, misses |-> 0, hits |-> 0,
     ttlOverride |-> <<>>]

\* NewRuleCache(ttl) with ttl = CacheTTL
InitCache ==
    /\ entries = [k \in {} |-> NoPack]
    /\ now = 1
    /\ got = NoGet
    /\ written = [k \in RulepackIDs |-> NotWritten]

\* A caller runs cache.Set(key, value, ttlOverride...).
SetCall ==
    \E key \in RulepackIDs, value \in CachedValues, ttlOverride \in TTLOverrides :
        /\ entries' = CacheSet(entries, now, CacheTTL, key, value, ttlOverride)
        /\ got' = [op |-> "Set", key |-> key, value |-> value, ok |-> TRUE,
                   at |-> now, before |-> CacheLen(entries), had |-> key \in DOMAIN entries,
                   ttlOverride |-> ttlOverride, prior |-> written[key].ttlOverride]
        /\ written' = [written EXCEPT ![key] =
                          [set |-> TRUE, value |-> value, at |-> now,
                           ttl |-> IF Len(ttlOverride) > 0 THEN ttlOverride[1] ELSE CacheTTL,
                           misses |-> 0, hits |-> 0, ttlOverride |-> ttlOverride]]
        /\ UNCHANGED now

\* A caller runs cache.Get(key).
GetCall ==
    \E key \in RulepackIDs :
        LET r == CacheGet(entries, now, key)
        IN /\ entries' = r.entries
           /\ got' = [op |-> "Get", key |-> key, value |-> r.value, ok |-> r.ok,
                      at |-> now, before |-> CacheLen(entries), had |-> key \in DOMAIN entries,
                      ttlOverride |-> <<>>, prior |-> <<>>]
           /\ written' = [written EXCEPT
                             ![key].misses = IF written[key].set /\ ~r.ok /\ @ < 2 THEN @ + 1 ELSE @,
                             ![key].hits = IF written[key].set /\ r.ok /\ @ < 1 THEN @ + 1 ELSE @]
           /\ UNCHANGED now

\* A caller runs cache.Invalidate(key).
InvalidateCall ==
    \E key \in RulepackIDs :
        /\ entries' = CacheInvalidate(entries, key)
        /\ got' = [op |-> "Invalidate", key |-> key, value |-> NoPack, ok |-> TRUE,
                   at |-> now, before |-> CacheLen(entries), had |-> key \in DOMAIN entries,
                   ttlOverride |-> <<>>, prior |-> <<>>]
        /\ written' = [written EXCEPT ![key] = NotWritten]
        /\ UNCHANGED now

\* Time passes.
Tick ==
    /\ now < MaxTime
    /\ now' = now + 1
    /\ UNCHANGED <<entries, got, written>>

cacheVars == <<entries, now, got, written>>


\* ------------------------------------------------------------------------
\* Audit stores (storage.MemoryStore, storage.BoltStore, storage.BadgerStore)
\* ------------------------------------------------------------------------
\* The built-in backends of buildStore, and "injected": a Store of the
\* caller's own making, handed in with WithStorage, whose Put can return an
\* error.
BuiltIn == {"memory", "bolt", "badger"}
Backends == BuiltIn \cup {"injected"}

\* NewMemory / NewBolt / NewBadger: an allocated, empty map
NewStore(backend) ==
    [backend |-> backend, open |-> TRUE, failing |-> FALSE, records |-> [k \in {} |-> NoPack]]

ErrPut == [kind |-> "put failed", arg |-> ""]

\* Store.Put(ctx, record): an assignment into the map; into the nil map that
\* Close of the bolt and badger stores leaves behind, it is a run-time panic.
\* The injected store returns an error while it is failing.
StorePut(store, key, value) ==
    IF store.backend = "injected" /\ store.failing
    THEN [store |-> store, panic |-> FALSE, err |-> ErrPut]
    ELSE IF store.open
    THEN [store |-> [store EXCEPT !.records = (key :> value) @@ @], panic |-> FALSE, err |-> Nil]
    ELSE [store |-> store, panic |-> TRUE, err |-> Nil]

ErrClosed == [kind |-> "store closed", arg |-> ""]

\* s.bucket = nil (s.db = nil): the map is dropped.
StoreClear(store) == [store EXCEPT !.open = FALSE, !.records = [k \in {} |-> NoPack]]

\* delete(s.bucket, key): nothing happens on a nil map or an absent key.
StoreDelete(store, key) ==
    [store EXCEPT !.records = [k \in (DOMAIN @) \ {key} |-> @[k]]]

\* Store.Close(): a no-op for the memory store (and the injected one); bolt
\* and badger set the map to nil, and report an error when it already is.
StoreClose(store) ==
    IF store.backend \in {"memory", "injected"} THEN [store |-> store, err |-> Nil]
    ELSE IF ~store.open THEN [store |-> store, err |-> ErrClosed]
    ELSE [store |-> StoreClear(store), err |-> Nil]

\* ------------------------------------------------------------------------
\* Governor
\* ------------------------------------------------------------------------
VARIABLES
    cfg,          \* Governor.cfg: the configuration the Governor was built with
    offline,      \* Governor.offline
    offlineChan,  \* Governor.offlineChan: the buffered channel, oldest first
    storage,      \* Governor.storage
    calls,        \* per goroutine: where it is in Governor.Evaluate
    ctxDone,      \* the context given to NewGovernor is cancelled
    served,       \* what the control plane answers for rulepack "local"
    panicked,     \* a goroutine panicked: the process is gone
    ret           \* the last Governor call that returned

\* The goroutines: one foreground caller and the replay worker.
Procs == {"caller", "worker"}

GovPayloads == {PayloadSecret, PayloadNotJSON}

\* DecisionRequest{RulepackID, Payload}; requests for the rulepack the control
\* plane does not know carry the one payload.
DecisionRequest ==
    {r \in [RulepackID : RulepackIDs, Payload : GovPayloads] :
        r.RulepackID = "other" => r.Payload = PayloadSecret}

NoRequest == [RulepackID |-> "", Payload |-> ""]

\* The contexts a foreground caller passes: live, already cancelled, or
\* cancelled once the first rule has been checked.
CallerContexts == {Background, 0, 1}

\* The calls of Governor.Evaluate by the foreground caller: any context with
\* the well-formed request for "local", a live one with the other requests.
DecisionCalls ==
    {c \in [req : DecisionRequest, ctx : CallerContexts] :
        c.ctx # Background => c.req = [RulepackID |-> "local", Payload |-> PayloadSecret]}

ErrOffline(id) == [kind |-> "governor: offline mode enabled", arg |-> id]
ErrFetch == [kind |-> "fetch rulepack", arg |-> ""]
ErrQueueOffline == [kind |-> "queue requires offline mode", arg |-> ""]
ErrQueueFull == [kind |-> "offline queue full", arg |-> ""]

Idle == [pc |-> "idle", req |-> NoRequest, ctx |-> Background]
Fetching(req, ctx) == [pc |-> "fetching", req |-> req, ctx |-> ctx]

NoReturn ==
    [n |-> 0, proc |-> "caller", op |-> "none", req |-> NoRequest, ctx |-> Background,
     allowed |-> FALSE, reason |-> "", err |-> Nil, fetched |-> FALSE, put |-> FALSE,
     putErr |-> Nil, checked |-> 0]

\* A return of a Governor call; n flips with every return. For Evaluate:
\* fetched, the call sent a fetch; put, it called the store's Put, which
\* returned putErr; checked, the number of rules its evaluator checked.
Return(proc, op, req, ctx, allowed, reason, err, fetched, put, putErr, checked) ==
    [n |-> 1 - ret.n, proc |-> proc, op |-> op, req |-> req, ctx |-> ctx,
     allowed |-> allowed, reason |-> reason, err |-> err, fetched |-> fetched, put |-> put,
     putErr |-> putErr, checked |-> checked]

\* persistAudit: the record key, rulepackID + ":" + time.Now().UnixNano()
AuditKey(req, clock) == <<req.RulepackID, ":", clock>>

\* persistAudit: the record value, the decision's snapshot
AuditValue(req, allowed, reason) ==
    [rulepack_id |-> req.RulepackID, payload |-> req.Payload, allowed |-> allowed, reason |-> reason]

\* A rulepack with a pattern that does not compile.
PackBad == [ID |-> "local", Rules |-> <<DefBroken>>]

\* What the control plane answers for "local": a version of the rulepack.
Answers == {"V1", "V2", "bad", "down"}
Served(answer) ==
    CASE answer = "V1" -> PackV1
      [] answer = "V2" -> PackV2
      [] answer = "bad" -> PackBad
      [] OTHER -> NoPack

\* fetchRulepack(ctx, id): the answer of the control plane, an error for a
\* cancelled context, an unknown rulepack or an unreachable server.
FetchRulepack(ctx, id, answer) ==
    IF Done(ctx, 0) \/ id # "local" \/ answer = "down"
    THEN [err |-> ErrFetch, pack |-> NoPack]
    ELSE [err |-> Nil, pack |-> Served(answer)]

\* persistAudit with a slip: a cancelled context skips the write.
PersistAuditUnlessCancelled(store, ctx, req, e, clock) ==
    LET w == StorePut(store, AuditKey(req, clock), AuditValue(req, e.allowed, e.reason))
    IN IF Done(ctx, e.checked)
       THEN [issued |-> FALSE, store |-> store, panic |-> FALSE, err |-> ErrCancelled]
       ELSE [issued |-> TRUE, store |-> w.store, panic |-> w.panic, err |-> w.err]

\* persistAudit(ctx, req, result): the record goes to the store's Put, with
\* the caller's context, whatever its state (g.storage is never nil:
\* buildStore and WithStorage see to that).
PersistAudit(store, ctx, req, e, clock) ==
    LET w == StorePut(store, AuditKey(req, clock), AuditValue(req, e.allowed, e.reason))
    IN [issued |-> TRUE, store |-> w.store, panic |-> w.panic, err |-> w.err]

\* The tail of Governor.Evaluate with a slip: the error of persistAudit is
\* returned to the caller.
DecisionAuditChecked(store, ctx, req, e, clock) ==
    LET a == PersistAudit(store, ctx, req, e, clock)
    IN IF e.err # Nil
       THEN [allowed |-> FALSE, reason |-> "", err |-> e.err, put |-> FALSE, putErr |-> Nil,
             store |-> store, panic |-> FALSE]
       ELSE IF a.err # Nil
       THEN [allowed |-> FALSE, reason |-> "", err |-> a.err, put |-> a.issued, putErr |-> a.err,
             store |-> a.store, panic |-> a.panic]
       ELSE [allowed |-> e.allowed, reason |-> e.reason, err |-> Nil, put |-> a.issued,
             putErr |-> a.err, store |-> a.store, panic |-> a.panic]

\* The tail of Governor.Evaluate with a slip: the audit record is written
\* before the evaluator's error is looked at.
DecisionAuditFirst(store, ctx, req, e, clock) ==
    LET a == PersistAudit(store, ctx, req, e, clock)
    IN [allowed |-> IF e.err # Nil THEN FALSE ELSE e.allowed,
        reason |-> IF e.err # Nil THEN "" ELSE e.reason,
        err |-> e.err, put |-> a.issued, putErr |-> a.err, store |-> a.store, panic |-> a.panic]

\* The tail of Governor.Evaluate with a slip: an error of the evaluator
\* comes back with a result that allows.
DecisionFailOpen(store, ctx, req, e, clock) ==
    LET a == PersistAudit(store, ctx, req, e, clock)
    IN IF e.err # Nil
       THEN [allowed |-> TRUE, reason |-> "", err |-> e.err, put |-> FALSE, putErr |-> Nil,
             store |-> store, panic |-> FALSE]
       ELSE [allowed |-> e.allowed, reason |-> e.reason, err |-> Nil, put |-> a.issued,
             putErr |-> a.err, store |-> a.store, panic |-> a.panic]

\* The tail of Governor.Evaluate, given what the evaluator returned (e): an
\* error is passed on with an empty result; a verdict is audited, the error
\* of persistAudit is dropped, and the verdict is returned.
Decision(store, ctx, req, e, clock) ==
    LET a == PersistAudit(store, ctx, req, e, clock)
    IN IF e.err # Nil
       THEN [allowed |-> FALSE, reason |-> "", err |-> e.err, put |-> FALSE, putErr |-> Nil,
             store |-> store, panic |-> FALSE]
       ELSE [allowed |-> e.allowed, reason |-> e.reason, err |-> Nil, put |-> a.issued,
             putErr |-> a.err, store |-> a.store, panic |-> a.panic]

\* Governor.Evaluate from the call of the evaluator on, for goroutine p that
\* holds the rulepack pack: evaluate, persist the audit record, return.
Decide(p, req, ctx, pack, fetched) ==
    LET e == Evaluate(rules, ctx, pack, req.Payload)
        d == Decision(storage, ctx, req, e, now)
    IN /\ rules' = e.rules
       /\ IF d.panic
          THEN /\ panicked' = TRUE
               /\ UNCHANGED <<storage, ret>>
          ELSE /\ storage' = d.store
               /\ ret' = Return(p, "Evaluate", req, ctx, d.allowed, d.reason, d.err, fetched,
                                d.put, d.putErr, e.checked)
               /\ UNCHANGED panicked

\* loadRulepack with a slip: the offline flag is not consulted.
LoadRulepackAlwaysFetch(cache, clock, flag, id) ==
    LET g == CacheGet(cache, clock, id)
    IN [entries |-> g.entries, hit |-> g.ok, pack |-> g.value, err |-> Nil]

\* loadRulepack with a slip: a cache hit stores the rulepack again, with a
\* new time to live.
LoadRulepackRefreshing(cache, clock, flag, id) ==
    LET g == CacheGet(cache, clock, id)
    IN [entries |-> IF g.ok THEN CacheSet(g.entries, clock, CacheTTL, id, g.value, <<>>)
                    ELSE g.entries,
        hit |-> g.ok, pack |-> g.value,
        err |-> IF ~g.ok /\ flag THEN ErrOffline(id) ELSE Nil]

\* loadRulepack(ctx, id) up to the fetch: a cache hit returns the cached
\* rulepack; a miss fails when offline and goes on to the fetch otherwise.
LoadRulepack(cache, clock, flag, id) ==
    LET g == CacheGet(cache, clock, id)
    IN [entries |-> g.entries, hit |-> g.ok, pack |-> g.value,
        err |-> IF ~g.ok /\ flag THEN ErrOffline(id) ELSE Nil]

\* loadRulepack after the fetch, with a slip: the entry is given no time to live.
StoreFetchedNoTTL(cache, clock, id, pack) == CacheSet(cache, clock, CacheTTL, id, pack, <<0>>)

\* loadRulepack after a successful fetch: g.cache.Set(id, pack), under the
\* requested id and with the cache's default TTL.
StoreFetched(cache, clock, id, pack) == CacheSet(cache, clock, CacheTTL, id, pack, <<>>)

\* Governor.Evaluate(ctx, req) by goroutine p up to its first suspension:
\* loadRulepack finds the rulepack in the cache and the decision is made, or
\* misses and fails offline, or misses and sends the fetch.
Begin(p, req, ctx, after) ==
    LET l == LoadRulepack(entries, now, offline, req.RulepackID)
    IN /\ entries' = l.entries
       /\ IF l.hit
          THEN /\ calls' = [calls EXCEPT ![p] = after]
               /\ Decide(p, req, ctx, l.pack, FALSE)
          ELSE IF l.err # Nil
          THEN /\ calls' = [calls EXCEPT ![p] = after]
               /\ ret' = Return(p, "Evaluate", req, ctx, FALSE, "", l.err, FALSE, FALSE, Nil, 0)
               /\ UNCHANGED <<rules, storage, panicked>>
          ELSE /\ calls' = [calls EXCEPT ![p] = Fetching(req, ctx)]
               /\ UNCHANGED <<rules, storage, panicked, ret>>

Waiting == [pc |-> "waiting", req |-> NoRequest, ctx |-> Background]
Exited == [pc |-> "exited", req |-> NoRequest, ctx |-> Background]
NotStarted == [pc |-> "none", req |-> NoRequest, ctx |-> Background]

\* Where a goroutine is once its Evaluate has returned.
Rest(p) == IF p = "worker" THEN Waiting ELSE Idle

\* The foreground caller runs g.Evaluate(ctx, req).
EvaluateStart ==
    \E call \in DecisionCalls :
        /\ ~panicked
        /\ calls["caller"].pc = "idle"
        /\ Begin("caller", call.req, call.ctx, Idle)
        /\ UNCHANGED <<offline, offlineChan, ctxDone, served, now>>

\* The fetch of goroutine p returns: on success the rulepack goes into the
\* cache and the decision is made; on failure Evaluate returns the error.
FetchReturn ==
    \E p \in Procs :
        /\ ~panicked
        /\ calls[p].pc = "fetching"
        /\ LET req == calls[p].req
               f == FetchRulepack(calls[p].ctx, req.RulepackID, served)
           IN IF f.err # Nil
              THEN /\ calls' = [calls EXCEPT ![p] = Rest(p)]
                   /\ ret' = Return(p, "Evaluate", req, calls[p].ctx, FALSE, "", f.err, TRUE, FALSE, Nil, 0)
                   /\ UNCHANGED <<entries, rules, storage, panicked>>
              ELSE /\ entries' = StoreFetched(entries, now, req.RulepackID, f.pack)
                   /\ calls' = [calls EXCEPT ![p] = Rest(p)]
                   /\ Decide(p, req, calls[p].ctx, f.pack, TRUE)
        /\ UNCHANGED <<offline, offlineChan, ctxDone, served, now>>

\* The replay context with a slip: the worker passes on the context it was
\* started with.
ReplayContextOfWorker == IF ctxDone THEN 0 ELSE Background

\* The context of a replay: context.Background(), a fresh one.
ReplayContext == Background

\* drainOfflineQueue with a slip: the newest request is taken first.
WorkerReceiveNewest ==
    /\ ~panicked
    /\ calls["worker"].pc = "waiting"
    /\ Len(offlineChan) > 0
    /\ offlineChan' = SubSeq(offlineChan, 1, Len(offlineChan) - 1)
    /\ Begin("worker", offlineChan[Len(offlineChan)], ReplayContext, Waiting)
    /\ UNCHANGED <<offline, ctxDone, served, now>>

\* drainOfflineQueue: the select receives a request and replays it.
WorkerReceive ==
    /\ ~panicked
    /\ calls["worker"].pc = "waiting"
    /\ Len(offlineChan) > 0
    /\ offlineChan' = Tail(offlineChan)
    /\ Begin("worker", Head(offlineChan), ReplayContext, Waiting)
    /\ UNCHANGED <<offline, ctxDone, served, now>>

\* drainOfflineQueue: the select sees ctx.Done() and the worker returns.
WorkerExit ==
    /\ ~panicked
    /\ calls["worker"].pc = "waiting"
    /\ ctxDone
    /\ calls' = [calls EXCEPT !["worker"] = Exited]
    /\ UNCHANGED <<entries, rules, storage, panicked, ret, offline, offlineChan, ctxDone, served, now>>

\* Governor.Queue(req) with a slip: the send is tried first and the offline
\* flag is consulted only when the queue is full.
QueueRoomFirst(chan, flag, req) ==
    IF Len(chan) < OfflineQueueSize
    THEN [chan |-> Append(chan, req), err |-> Nil, blocked |-> FALSE]
    ELSE IF ~flag THEN [chan |-> chan, err |-> ErrQueueOffline, blocked |-> FALSE]
    ELSE [chan |-> chan, err |-> ErrQueueFull, blocked |-> FALSE]

\* Governor.Queue(req) with a slip: the send blocks until there is room.
QueueBlocking(chan, flag, req) ==
    IF ~flag THEN [chan |-> chan, err |-> ErrQueueOffline, blocked |-> FALSE]
    ELSE IF Len(chan) < OfflineQueueSize
    THEN [chan |-> Append(chan, req), err |-> Nil, blocked |-> FALSE]
    ELSE [chan |-> chan, err |-> Nil, blocked |-> TRUE]

\* Governor.Queue(req): the select with a default never blocks.
Queue(chan, flag, req) ==
    IF ~flag THEN [chan |-> chan, err |-> ErrQueueOffline, blocked |-> FALSE]
    ELSE IF Len(chan) < OfflineQueueSize
    THEN [chan |-> Append(chan, req), err |-> Nil, blocked |-> FALSE]
    ELSE [chan |-> chan, err |-> ErrQueueFull, blocked |-> FALSE]

\* A goroutine runs g.Queue(req).
QueueCall ==
    \E req \in DecisionRequest :
        LET q == Queue(offlineChan, offline, req)
        IN /\ ~panicked
           /\ ~q.blocked
           /\ offlineChan' = q.chan
           /\ ret' = Return("caller", "Queue", req, Background, FALSE, "", q.err, FALSE, FALSE, Nil, 0)
           /\ UNCHANGED <<entries, rules, storage, panicked, calls, offline, ctxDone, served, now>>

\* WithOffline with a slip: enabling offline mode starts the replay worker
\* when there is none.
WithOfflineStartsWorker(procs, enabled) ==
    [offline |-> enabled,
     calls |-> IF enabled /\ procs["worker"].pc = "none"
               THEN [procs EXCEPT !["worker"] = Waiting] ELSE procs]

\* Governor.WithOffline(enabled): the flag is set; no goroutine is started
\* or stopped.
WithOffline(procs, enabled) == [offline |-> enabled, calls |-> procs]

\* A goroutine runs g.WithOffline(enabled).
WithOfflineCall ==
    \E enabled \in BOOLEAN :
        LET w == WithOffline(calls, enabled)
        IN /\ ~panicked
           /\ offline' = w.offline
           /\ calls' = w.calls
           /\ UNCHANGED <<entries, rules, storage, panicked, ret, offlineChan, ctxDone, served, now>>

\* Close with a slip: closing the Governor also ends the replay worker.
CloseCallStopsWorker ==
    LET c == StoreClose(storage)
    IN /\ ~panicked
       /\ storage' = c.store
       /\ ret' = Return("caller", "Close", NoRequest, Background, FALSE, "", c.err, FALSE, FALSE, Nil, 0)
       /\ calls' = [calls EXCEPT !["worker"] = IF @.pc = "none" THEN @ ELSE Exited]
       /\ UNCHANGED <<entries, rules, panicked, offline, offlineChan, ctxDone, served, now>>

\* A goroutine runs g.Close().
CloseCall ==
    LET c == StoreClose(storage)
    IN /\ ~panicked
       /\ storage' = c.store
       /\ ret' = Return("caller", "Close", NoRequest, Background, FALSE, "", c.err, FALSE, FALSE, Nil, 0)
       /\ UNCHANGED <<entries, rules, panicked, calls, offline, offlineChan, ctxDone, served, now>>

\* The context given to NewGovernor is cancelled.
CancelCtx ==
    /\ ~panicked
    /\ ~ctxDone
    /\ ctxDone' = TRUE
    /\ UNCHANGED <<entries, rules, storage, panicked, ret, calls, offline, offlineChan, served, now>>

\* The control plane publishes another version, goes down or comes back.
RemoteChange ==
    \E answer \in Answers \ {served} :
        /\ ~panicked
        /\ served' = answer
        /\ UNCHANGED <<entries, rules, storage, panicked, ret, calls, offline, offlineChan, ctxDone, now>>

\* Time passes.
GovTick ==
    /\ ~panicked
    /\ now < MaxTime
    /\ now' = now + 1
    /\ UNCHANGED <<entries, rules, storage, panicked, ret, calls, offline, offlineChan, ctxDone, served>>

\* The injected store starts or stops failing its Put calls.
StoreFault ==
    /\ ~panicked
    /\ storage.backend = "injected"
    /\ storage' = [storage EXCEPT !.failing = ~@]
    /\ UNCHANGED <<entries, rules, panicked, ret, calls, offline, offlineChan, ctxDone, served, now>>

govVars == <<cfg, offline, offlineChan, storage, calls, ctxDone, served, panicked, ret>>

\* ------------------------------------------------------------------------
\* Goroutines sharing one object: its lock and the steps of their calls
\* ------------------------------------------------------------------------
VARIABLES
    mu,     \* the sync.RWMutex of the shared object
    thr,    \* per goroutine: the call it is in and where it is in that call
    raced,  \* a field was read outside the lock while another goroutine wrote it
    committed   \* per rulepack id: the rule lists that Preload calls have stored

Thr == {"g1", "g2"}

\* sync.RWMutex: who holds it exclusively and who holds it shared. (A Lock
\* that waits holds back the RLock calls that come after it; with two
\* goroutines there are none, since the one that waits does so for the other.)
Unlocked == [writer |-> "none", readers |-> {}]

\* RLock with a slip: readers exclude each other too.
CanRLockAlone(m) == m.writer = "none" /\ m.readers = {}

\* RLock returns when no goroutine holds the lock exclusively.
CanRLock(m) == m.writer = "none"

\* Lock returns when no goroutine holds the lock in either way.
CanLock(m) == m.writer = "none" /\ m.readers = {}
RLock(m, g) == [m EXCEPT !.readers = @ \cup {g}]
RUnlock(m, g) == [m EXCEPT !.readers = @ \ {g}]
Lock(m, g) == [m EXCEPT !.writer = g]
Unlock(m) == [m EXCEPT !.writer = "none"]

\* No cacheEntry.
NoEntry == [value |-> NoPack, expiresAt |-> ZeroTime]

\* Where a goroutine is: the call (op), the place in it (pc), the key, and
\* an entry: for a Set, the entry it has built; for a Get that goes on to
\* evict, the entry that a Set has stored under its key since the Get gave
\* up the read lock (NoEntry: there is none).
With(op, pc, key, entry) == [op |-> op, pc |-> pc, key |-> key, entry |-> entry]
In(op, pc, key) == With(op, pc, key, NoEntry)

\* A goroutine between two calls.
Ready == In("none", "ready", "")

InitLocks ==
    /\ mu = Unlocked
    /\ thr = [g \in Thr |-> Ready]
    /\ raced = FALSE
    /\ committed = [id \in RulepackIDs |-> {}]

raceVars == <<mu, thr, raced, committed>>

\* The keys and the value of the records the goroutines put.
StoreKeys == {"k1", "k2"}
StoreValue == "v"

\* Put, Delete: s.mu.Lock()
StoreLock ==
    \E g \in Thr :
        \E op \in {"Put", "Delete"}, key \in StoreKeys :
            /\ ~panicked
            /\ thr[g].pc = "ready"
            /\ CanLock(mu)
            /\ mu' = Lock(mu, g)
            /\ thr' = [thr EXCEPT ![g] = In(op, "locked", key)]
            /\ UNCHANGED <<storage, panicked, raced>>

\* Put: the assignment into the map, then s.mu.Unlock(); the assignment into
\* a nil map panics.
StorePutWrite ==
    \E g \in Thr :
        /\ ~panicked
        /\ thr[g] = In("Put", "locked", thr[g].key)
        /\ LET w == StorePut(storage, thr[g].key, StoreValue)
           IN IF w.panic
              THEN /\ panicked' = TRUE
                   /\ UNCHANGED <<storage, mu, thr>>
              ELSE /\ storage' = w.store
                   /\ mu' = Unlock(mu)
                   /\ thr' = [thr EXCEPT ![g] = Ready]
                   /\ UNCHANGED panicked
        /\ UNCHANGED raced

\* Delete: delete(map, key), then s.mu.Unlock()
StoreDeleteWrite ==
    \E g \in Thr :
        /\ ~panicked
        /\ thr[g] = In("Delete", "locked", thr[g].key)
        /\ storage' = StoreDelete(storage, thr[g].key)
        /\ mu' = Unlock(mu)
        /\ thr' = [thr EXCEPT ![g] = Ready]
        /\ UNCHANGED <<panicked, raced>>

\* Get, Iter: s.mu.RLock()
StoreRLock ==
    \E g \in Thr :
        \E op \in {"Get", "Iter"}, key \in StoreKeys :
            /\ ~panicked
            /\ thr[g].pc = "ready"
            /\ CanRLock(mu)
            /\ mu' = RLock(mu, g)
            /\ thr' = [thr EXCEPT ![g] = In(op, "rlocked", IF op = "Get" THEN key ELSE "")]
            /\ UNCHANGED <<storage, panicked, raced>>

\* Get, Iter: the read of the map (a nil map reads as empty), then
\* s.mu.RUnlock()
StoreRead ==
    \E g \in Thr :
        /\ ~panicked
        /\ thr[g].pc = "rlocked"
        /\ thr[g].op \in {"Get", "Iter"}
        /\ mu' = RUnlock(mu, g)
        /\ thr' = [thr EXCEPT ![g] = Ready]
        /\ UNCHANGED <<storage, panicked, raced>>

\* MemoryStore.Close is called ...
StoreCloseMemory ==
    \E g \in Thr :
        /\ ~panicked
        /\ thr[g].pc = "ready"
        /\ storage.backend = "memory"
        /\ thr' = [thr EXCEPT ![g] = In("Close", "called", "")]
        /\ UNCHANGED <<storage, panicked, raced, mu>>

\* ... and returns nil: it touches neither the lock nor the map.
StoreCloseReturn ==
    \E g \in Thr :
        /\ ~panicked
        /\ thr[g] = In("Close", "called", "")
        /\ thr' = [thr EXCEPT ![g] = Ready]
        /\ UNCHANGED <<storage, panicked, raced, mu>>

\* BoltStore.Close, BadgerStore.Close: the test s.bucket == nil, made before
\* the lock is taken. While another goroutine is inside Close's locked
\* section, writing the field, the test is a data race and sees either value.
StoreCloseCheck ==
    \E g \in Thr :
        \E saw \in BOOLEAN :
            LET writing == \E h \in Thr \ {g} : thr[h] = In("Close", "locked", "")
            IN /\ ~panicked
               /\ thr[g].pc = "ready"
               /\ storage.backend \in {"bolt", "badger"}
               /\ writing \/ saw = storage.open
               /\ raced' = (raced \/ writing)
               /\ thr' = [thr EXCEPT ![g] = IF saw THEN In("Close", "checked", "") ELSE Ready]
               /\ UNCHANGED <<storage, panicked, mu>>

\* Close: s.mu.Lock()
StoreCloseLock ==
    \E g \in Thr :
        /\ ~panicked
        /\ thr[g] = In("Close", "checked", "")
        /\ CanLock(mu)
        /\ mu' = Lock(mu, g)
        /\ thr' = [thr EXCEPT ![g] = In("Close", "locked", "")]
        /\ UNCHANGED <<storage, panicked, raced>>

\* Close: s.bucket = nil, then s.mu.Unlock()
StoreCloseWrite ==
    \E g \in Thr :
        /\ ~panicked
        /\ thr[g] = In("Close", "locked", "")
        /\ storage' = StoreClear(storage)
        /\ mu' = Unlock(mu)
        /\ thr' = [thr EXCEPT ![g] = Ready]
        /\ UNCHANGED <<panicked, raced>>


\* NewGovernor with a slip: the replay worker is started whatever the mode.
NewGovernorAlwaysWorker(offlineMode, backend) ==
    /\ cfg = [OfflineMode |-> offlineMode, StorageBackend |-> backend]
    /\ offline = offlineMode
    /\ offlineChan = <<>>
    /\ storage = NewStore(backend)
    /\ calls = [p \in Procs |-> IF p = "worker" THEN Waiting ELSE Idle]
    /\ ctxDone = FALSE
    /\ served = "V1"
    /\ panicked = FALSE
    /\ ret = NoReturn

\* NewGovernor(ctx, cfg) for a configuration with the given OfflineMode and
\* StorageBackend: the replay worker is started only when offline.
NewGovernor(offlineMode, backend) ==
    /\ cfg = [OfflineMode |-> offlineMode, StorageBackend |-> backend]
    /\ offline = offlineMode
    /\ offlineChan = <<>>
    /\ storage = NewStore(backend)
    /\ calls = [p \in Procs |-> IF p = "worker" /\ offlineMode THEN Waiting
                               ELSE IF p = "worker" THEN NotStarted ELSE Idle]
    /\ ctxDone = FALSE
    /\ served = "V1"
    /\ panicked = FALSE
    /\ ret = NoReturn

vars == <<rules, last, entries, now, got, written,
          cfg, offline, offlineChan, storage, calls, ctxDone, served, panicked, ret,
          mu, thr, raced, committed>>

\* A Governor on one of the built-in stores.
Init ==
    /\ InitEval
    /\ InitCache
    /\ \E offlineMode \in BOOLEAN, backend \in BuiltIn : NewGovernor(offlineMode, backend)
    /\ InitLocks

\* A Governor built with WithStorage(store).
InitInjected ==
    /\ InitEval
    /\ InitCache
    /\ \E offlineMode \in BOOLEAN : NewGovernor(offlineMode, "injected")
    /\ InitLocks

Next ==
    \/ (EvaluateStart /\ UNCHANGED <<last, got, written, cfg, raceVars>>)
    \/ (FetchReturn /\ UNCHANGED <<last, got, written, cfg, raceVars>>)
    \/ (WithOfflineCall /\ UNCHANGED <<last, got, written, cfg, raceVars>>)
    \/ (CloseCall /\ UNCHANGED <<last, got, written, cfg, raceVars>>)
    \/ (RemoteChange /\ UNCHANGED <<last, got, written, cfg, raceVars>>)
    \/ (GovTick /\ UNCHANGED <<last, got, written, cfg, raceVars>>)

\* The decisions of the foreground caller: rulepack loading, evaluation and
\* audit, with the offline flag, the store and the control plane changing.
Spec == Init /\ [][Next]_vars

NextAudit ==
    \/ Next
    \/ (StoreFault /\ UNCHANGED <<last, got, written, cfg, raceVars>>)

\* The same decisions with an injected store whose Put fails at times.
SpecAudit == InitInjected /\ [][NextAudit]_vars

NextReplay ==
    \/ (QueueCall /\ UNCHANGED <<last, got, written, cfg, raceVars>>)
    \/ (WorkerReceive /\ UNCHANGED <<last, got, written, cfg, raceVars>>)
    \/ (FetchReturn /\ UNCHANGED <<last, got, written, cfg, raceVars>>)
    \/ (WorkerExit /\ UNCHANGED <<last, got, written, cfg, raceVars>>)
    \/ (WithOfflineCall /\ UNCHANGED <<last, got, written, cfg, raceVars>>)
    \/ (CloseCall /\ UNCHANGED <<last, got, written, cfg, raceVars>>)
    \/ (CancelCtx /\ UNCHANGED <<last, got, written, cfg, raceVars>>)

\* The offline replay queue and its worker.
SpecReplay == Init /\ [][NextReplay]_vars

NextStop ==
    \/ (QueueCall /\ UNCHANGED <<last, got, written, cfg, raceVars>>)
    \/ (WorkerReceive /\ UNCHANGED <<last, got, written, cfg, raceVars>>)
    \/ (WorkerExit /\ UNCHANGED <<last, got, written, cfg, raceVars>>)
    \/ (CloseCall /\ UNCHANGED <<last, got, written, cfg, raceVars>>)
    \/ (CancelCtx /\ UNCHANGED <<last, got, written, cfg, raceVars>>)

\* The queue and its worker on a Governor whose offline flag stays as built,
\* with the scheduling the runtime gives the worker: when the Done case of
\* its select is ready again and again, the select takes it in the end (the
\* choice among ready cases is random).
SpecStop ==
    /\ Init
    /\ [][NextStop]_vars
    /\ SF_vars(WorkerExit /\ UNCHANGED <<last, got, written, cfg, raceVars>>)

NextHerd ==
    \/ (EvaluateStart /\ UNCHANGED <<last, got, written, cfg, raceVars>>)
    \/ (QueueCall /\ UNCHANGED <<last, got, written, cfg, raceVars>>)
    \/ (WorkerReceive /\ UNCHANGED <<last, got, written, cfg, raceVars>>)
    \/ (FetchReturn /\ UNCHANGED <<last, got, written, cfg, raceVars>>)
    \/ (WithOfflineCall /\ UNCHANGED <<last, got, written, cfg, raceVars>>)
    \/ (RemoteChange /\ UNCHANGED <<last, got, written, cfg, raceVars>>)

\* A Governor built in offline mode on the memory store: its replay worker
\* runs.
InitHerd ==
    /\ InitEval
    /\ InitCache
    /\ NewGovernor(TRUE, "memory")
    /\ InitLocks

\* Two goroutines in Governor.Evaluate at once: the foreground caller and the
\* replay worker, each of which may be waiting for its own fetch.
SpecHerd == InitHerd /\ [][NextHerd]_vars

\* Goroutines in Get, Set and Invalidate of one RuleCache, step by step.
\* cache.Get(key) is called: c.mu.RLock() comes next.
CacheCallGet ==
    \E g \in Thr, key \in RulepackIDs :
        /\ thr[g].pc = "ready"
        /\ thr' = [thr EXCEPT ![g] = In("Get", "wantR", key)]
        /\ UNCHANGED <<entries, now, mu>>

\* cache.Set(key, value, ttlOverride...) is called: the entry is built, with
\* the clock read now; c.mu.Lock() comes next.
CacheCallSet ==
    \E g \in Thr, key \in RulepackIDs, value \in CachedValues, ttlOverride \in TTLOverrides :
        LET built == CacheSet([k \in {} |-> NoEntry], now, CacheTTL, key, value, ttlOverride)
        IN /\ thr[g].pc = "ready"
           /\ thr' = [thr EXCEPT ![g] = With("Set", "wantW", key, built[key])]
           /\ UNCHANGED <<entries, now, mu>>

\* cache.Invalidate(key) is called: c.mu.Lock() comes next.
CacheCallInvalidate ==
    \E g \in Thr, key \in RulepackIDs :
        /\ thr[g].pc = "ready"
        /\ thr' = [thr EXCEPT ![g] = In("Invalidate", "wantW", key)]
        /\ UNCHANGED <<entries, now, mu>>

\* c.mu.RLock() returns.
CacheRLock ==
    \E g \in Thr :
        /\ thr[g].pc = "wantR"
        /\ CanRLock(mu)
        /\ mu' = RLock(mu, g)
        /\ thr' = [thr EXCEPT ![g].pc = "rlocked"]
        /\ UNCHANGED <<entries, now>>

\* Get under the read lock: the lookup, the expiry test and c.mu.RUnlock().
\* A valid entry or an absent key ends the call; an expired entry sends it
\* on to c.mu.Lock().
CacheRead ==
    \E g \in Thr :
        LET r == GetRead(entries, now, thr[g].key)
        IN /\ thr[g].pc = "rlocked"
           /\ mu' = RUnlock(mu, g)
           /\ thr' = [thr EXCEPT ![g] = IF ~r.ok /\ r.present
                                        THEN In("Get", "wantW", thr[g].key) ELSE Ready]
           /\ UNCHANGED <<entries, now>>

\* c.mu.Lock() returns.
CacheLock ==
    \E g \in Thr :
        /\ thr[g].pc = "wantW"
        /\ CanLock(mu)
        /\ mu' = Lock(mu, g)
        /\ thr' = [thr EXCEPT ![g].pc = "locked"]
        /\ UNCHANGED <<entries, now>>

\* Get under the write lock: the re-check, the delete and c.mu.Unlock().
CacheEvict ==
    \E g \in Thr :
        /\ thr[g].op = "Get"
        /\ thr[g].pc = "locked"
        /\ entries' = GetEvict(entries, now, thr[g].key)
        /\ mu' = Unlock(mu)
        /\ thr' = [thr EXCEPT ![g].pc = "unlocked"]
        /\ UNCHANGED now

\* Get returns (zero, false) after its eviction step.
CacheReturn ==
    \E g \in Thr :
        /\ thr[g].pc = "unlocked"
        /\ thr' = [thr EXCEPT ![g] = Ready]
        /\ UNCHANGED <<entries, now, mu>>

\* The Gets on their way to evict key, other than g.
Evicting(g, key) ==
    {h \in Thr \ {g} : thr[h].op = "Get" /\ thr[h].key = key /\ thr[h].pc \in {"wantW", "locked"}}

\* Set under the write lock: c.entries[key] = entry and c.mu.Unlock().
CacheStore ==
    \E g \in Thr :
        /\ thr[g].op = "Set"
        /\ thr[g].pc = "locked"
        /\ entries' = (thr[g].key :> thr[g].entry) @@ entries
        /\ mu' = Unlock(mu)
        /\ thr' = [h \in Thr |-> IF h = g THEN Ready
                                  ELSE IF h \in Evicting(g, thr[g].key)
                                  THEN [thr[h] EXCEPT !.entry = thr[g].entry]
                                  ELSE thr[h]]
        /\ UNCHANGED now

\* Invalidate under the write lock: delete(c.entries, key) and c.mu.Unlock().
CacheDrop ==
    \E g \in Thr :
        /\ thr[g].op = "Invalidate"
        /\ thr[g].pc = "locked"
        /\ entries' = CacheInvalidate(entries, thr[g].key)
        /\ mu' = Unlock(mu)
        /\ thr' = [h \in Thr |-> IF h = g THEN Ready
                                  ELSE IF h \in Evicting(g, thr[g].key)
                                  THEN [thr[h] EXCEPT !.entry = NoEntry]
                                  ELSE thr[h]]
        /\ UNCHANGED now

\* Time passes.
CacheTick ==
    /\ now < MaxTime
    /\ now' = now + 1
    /\ UNCHANGED <<entries, mu, thr>>

cacheRest == <<evalVars, got, written, govVars, raced, committed>>

NextCacheRace ==
    \/ (CacheCallGet /\ UNCHANGED cacheRest)
    \/ (CacheCallSet /\ UNCHANGED cacheRest)
    \/ (CacheCallInvalidate /\ UNCHANGED cacheRest)
    \/ (CacheRLock /\ UNCHANGED cacheRest)
    \/ (CacheRead /\ UNCHANGED cacheRest)
    \/ (CacheLock /\ UNCHANGED cacheRest)
    \/ (CacheEvict /\ UNCHANGED cacheRest)
    \/ (CacheReturn /\ UNCHANGED cacheRest)
    \/ (CacheStore /\ UNCHANGED cacheRest)
    \/ (CacheDrop /\ UNCHANGED cacheRest)
    \/ (CacheTick /\ UNCHANGED cacheRest)

\* Goroutines in Preload and Evaluate of one Evaluator, step by step. The
\* payload is one that no rule matches and the token is live, so that the
\* loop of Evaluate visits every rule of its list.
RacePacks ==
    {[ID |-> "local", Rules |-> r] :
        r \in {<<DefSecret, DefData>>, <<DefData, DefSecret>>, <<DefSecret, DefBroken>>}}

\* A goroutine in Preload or Evaluate: the rulepack it was given, the rules
\* it has compiled so far (built), the slice it took from the table (list)
\* and the rules its loop has visited (seen).
Run(op, pc, pack, built, list, seen) ==
    [op |-> op, pc |-> pc, key |-> pack.ID, pack |-> pack, built |-> built, list |-> list,
     seen |-> seen]

\* Preload(pack.ID, pack.Rules) is called: e.mu.Lock() comes next.
RacePreload ==
    \E g \in Thr, pack \in RacePacks :
        /\ thr[g].pc = "ready"
        /\ thr' = [thr EXCEPT ![g] = Run("Preload", "wantW", pack, <<>>, <<>>, <<>>)]
        /\ UNCHANGED <<rules, mu, committed>>

\* Evaluate(ctx, pack, payload) is called: e.mu.RLock() comes next.
RaceEvaluate ==
    \E g \in Thr, pack \in RacePacks :
        /\ thr[g].pc = "ready"
        /\ thr' = [thr EXCEPT ![g] = Run("Evaluate", "wantR", pack, <<>>, <<>>, <<>>)]
        /\ UNCHANGED <<rules, mu, committed>>

\* e.mu.RLock() returns, before the lookup or before the second read.
RaceRLock ==
    \E g \in Thr :
        /\ thr[g].pc \in {"wantR", "wantR2"}
        /\ CanRLock(mu)
        /\ mu' = RLock(mu, g)
        /\ thr' = [thr EXCEPT ![g].pc = IF @ = "wantR" THEN "rlocked" ELSE "rlocked2"]
        /\ UNCHANGED <<rules, committed>>

\* Evaluate: rules, ok := e.rules[pack.ID] and e.mu.RUnlock(); a stored list
\* is iterated, an unseen id goes to Preload.
RaceLookup ==
    \E g \in Thr :
        /\ thr[g].pc = "rlocked"
        /\ mu' = RUnlock(mu, g)
        /\ thr' = [thr EXCEPT ![g] =
                      IF thr[g].key \in DOMAIN rules
                      THEN [@ EXCEPT !.pc = "iterate", !.list = rules[thr[g].key]]
                      ELSE [@ EXCEPT !.pc = "wantW"]]
        /\ UNCHANGED <<rules, committed>>

\* Preload: e.mu.Lock() returns; the new slice is empty.
RaceLock ==
    \E g \in Thr :
        /\ thr[g].op \in {"Preload", "Evaluate"}
        /\ thr[g].pc = "wantW"
        /\ CanLock(mu)
        /\ mu' = Lock(mu, g)
        /\ thr' = [thr EXCEPT ![g].pc = "compiling"]
        /\ UNCHANGED <<rules, committed>>

\* Preload, under the lock: the next definition is compiled and appended to
\* the new slice; a pattern that does not compile ends the call (and the
\* Evaluate that made it) with the lock released and the table as it was.
RaceCompile ==
    \E g \in Thr :
        /\ thr[g].pc = "compiling"
        /\ Len(thr[g].built) < Len(thr[g].pack.Rules)
        /\ LET def == thr[g].pack.Rules[Len(thr[g].built) + 1]
           IN IF Compiles(def.Pattern)
              THEN /\ thr' = [thr EXCEPT ![g].built = Append(@, Rule(def))]
                   /\ UNCHANGED mu
              ELSE /\ thr' = [thr EXCEPT ![g] = Ready]
                   /\ mu' = Unlock(mu)
        /\ UNCHANGED <<rules, committed>>

\* Preload, under the lock: e.rules[rulepackID] = rules, and the deferred
\* e.mu.Unlock(). Evaluate goes on to its second read.
RaceCommit ==
    \E g \in Thr :
        /\ thr[g].pc = "compiling"
        /\ Len(thr[g].built) = Len(thr[g].pack.Rules)
        /\ rules' = (thr[g].key :> thr[g].built) @@ rules
        /\ committed' = [committed EXCEPT ![thr[g].key] = @ \cup {thr[g].built}]
        /\ mu' = Unlock(mu)
        /\ thr' = [thr EXCEPT ![g] = IF @.op = "Preload" THEN Ready
                                     ELSE [@ EXCEPT !.pc = "wantR2"]]

\* Evaluate: rules = e.rules[pack.ID] and e.mu.RUnlock(), after its Preload.
RaceReread ==
    \E g \in Thr :
        /\ thr[g].pc = "rlocked2"
        /\ mu' = RUnlock(mu, g)
        /\ thr' = [thr EXCEPT ![g] = [@ EXCEPT !.pc = "iterate", !.list = rules[thr[g].key]]]
        /\ UNCHANGED <<rules, committed>>

\* The loop with a slip: each round reads the rule from the table.
RuleAtLive(list, table, id, i) ==
    IF id \in DOMAIN table /\ i <= Len(table[id]) THEN table[id][i] ELSE list[i]

\* for _, rule := range rules: the i-th rule of the slice Evaluate holds.
RuleAt(list, table, id, i) == list[i]

\* Evaluate: one round of the loop.
RaceVisit ==
    \E g \in Thr :
        /\ thr[g].pc = "iterate"
        /\ Len(thr[g].seen) < Len(thr[g].list)
        /\ thr' = [thr EXCEPT ![g].seen =
                      Append(@, RuleAt(thr[g].list, rules, thr[g].key, Len(@) + 1))]
        /\ UNCHANGED <<rules, mu, committed>>

\* Evaluate: the loop is over and the call returns.
RaceFinish ==
    \E g \in Thr :
        /\ thr[g].pc = "iterate"
        /\ Len(thr[g].seen) = Len(thr[g].list)
        /\ thr' = [thr EXCEPT ![g] = Ready]
        /\ UNCHANGED <<rules, mu, committed>>

evalRest == <<last, cacheVars, govVars, raced>>

NextEvalRace ==
    \/ (RacePreload /\ UNCHANGED evalRest)
    \/ (RaceEvaluate /\ UNCHANGED evalRest)
    \/ (RaceRLock /\ UNCHANGED evalRest)
    \/ (RaceLookup /\ UNCHANGED evalRest)
    \/ (RaceLock /\ UNCHANGED evalRest)
    \/ (RaceCompile /\ UNCHANGED evalRest)
    \/ (RaceCommit /\ UNCHANGED evalRest)
    \/ (RaceReread /\ UNCHANGED evalRest)
    \/ (RaceVisit /\ UNCHANGED evalRest)
    \/ (RaceFinish /\ UNCHANGED evalRest)

\* A store of each built-in backend, as buildStore makes it.
InitStore ==
    /\ InitEval
    /\ InitCache
    /\ \E backend \in BuiltIn : NewGovernor(FALSE, backend)
    /\ InitLocks

storeRest == <<evalVars, cacheVars, cfg, offline, offlineChan, calls, ctxDone, served, ret, committed>>

NextStore ==
    \/ (StoreLock /\ UNCHANGED storeRest)
    \/ (StorePutWrite /\ UNCHANGED storeRest)
    \/ (StoreDeleteWrite /\ UNCHANGED storeRest)
    \/ (StoreRLock /\ UNCHANGED storeRest)
    \/ (StoreRead /\ UNCHANGED storeRest)
    \/ (StoreCloseMemory /\ UNCHANGED storeRest)
    \/ (StoreCloseReturn /\ UNCHANGED storeRest)
    \/ (StoreCloseCheck /\ UNCHANGED storeRest)
    \/ (StoreCloseLock /\ UNCHANGED storeRest)
    \/ (StoreCloseWrite /\ UNCHANGED storeRest)

\* Goroutines calling one store, step by step.
SpecStore == InitStore /\ [][NextStore]_vars

\* A Governor built in offline mode, on any built-in store.
InitDrain ==
    /\ InitEval
    /\ InitCache
    /\ \E backend \in BuiltIn : NewGovernor(TRUE, backend)
    /\ InitLocks

NextDrain ==
    \/ (QueueCall /\ UNCHANGED <<last, got, written, cfg, raceVars>>)
    \/ (WorkerReceive /\ UNCHANGED <<last, got, written, cfg, raceVars>>)
    \/ (FetchReturn /\ UNCHANGED <<last, got, written, cfg, raceVars>>)
    \/ (WithOfflineCall /\ UNCHANGED <<last, got, written, cfg, raceVars>>)
    \/ (CloseCall /\ UNCHANGED <<last, got, written, cfg, raceVars>>)

\* WorkerReceive, as the channel shows it: the waiting worker takes the
\* oldest request. No other step shortens the channel.
Receives ==
    /\ ~panicked
    /\ calls["worker"].pc = "waiting"
    /\ Len(offlineChan) > 0
    /\ offlineChan' = Tail(offlineChan)

\* FetchReturn, as the goroutines' places show it: a goroutine that waits for
\* its fetch leaves fetchRulepack. No other step does that.
FetchDone ==
    \E p \in Procs :
        /\ ~panicked
        /\ calls[p].pc = "fetching"
        /\ calls' = [calls EXCEPT ![p] = Rest(p)]

\* The replay queue of a Governor built offline whose context is never
\* cancelled, with the scheduling the runtime gives the worker: a receive
\* that stays possible is made (the worker's select has no other ready
\* case), and a fetch that was sent comes back.
SpecDrain ==
    /\ InitDrain
    /\ [][NextDrain]_vars
    /\ WF_offlineChan(Receives)
    /\ WF_calls(FetchDone)

\* The Evaluator alone, on a Governor that is left alone.
InitParts ==
    /\ InitEval
    /\ InitCache
    /\ NewGovernor(FALSE, "memory")
    /\ InitLocks

SpecEval ==
    InitParts /\ [][\/ (PreloadCall /\ UNCHANGED <<cacheVars, govVars, raceVars>>)
                    \/ (EvaluateCall /\ UNCHANGED <<cacheVars, govVars, raceVars>>)]_vars

SpecEvalPairs ==
    InitParts /\ [][\/ (PreloadBetween /\ UNCHANGED <<cacheVars, govVars, raceVars>>)
                    \/ (EvaluateCall /\ UNCHANGED <<cacheVars, govVars, raceVars>>)]_vars

\* The RuleCache alone.
SpecCache ==
    InitParts /\ [][\/ (SetCall /\ UNCHANGED <<evalVars, govVars, raceVars>>)
                    \/ (GetCall /\ UNCHANGED <<evalVars, govVars, raceVars>>)
                    \/ (InvalidateCall /\ UNCHANGED <<evalVars, govVars, raceVars>>)
                    \/ (Tick /\ UNCHANGED <<evalVars, govVars, raceVars>>)]_vars

\* Two goroutines calling one RuleCache, step by step.
SpecCacheRace == InitParts /\ [][NextCacheRace]_vars

\* Two goroutines calling one Evaluator, step by step.
SpecEvalRace == InitParts /\ [][NextEvalRace]_vars

\* ------------------------------------------------------------------------
\* Properties of the Evaluator
\* ------------------------------------------------------------------------
Min(S) == CHOOSE x \in S : \A y \in S : x <= y

\* The payload of the last call is usable: empty, or the text of a JSON object.
Parses(payload) == payload = "" \/ ~Unmarshal(payload).err

DocumentOf(payload) == IF payload = "" THEN EmptyDocument ELSE Unmarshal(payload).document

\* The rules of a list (compiled rules or definitions, by their pattern) that
\* name a string field of the document which matches the pattern.
MatchingRules(list, pattern(_), document) ==
    {i \in 1..Len(list) :
        /\ list[i].ID \in DOMAIN document
        /\ document[list[i].ID].t = "string"
        /\ MatchString(pattern(list[i]), document[list[i].ID].s)}

PatternOf(def) == def.Pattern
ExpressionOf(rule) == rule.Expression

AllCompile(definitions) == \A i \in 1..Len(definitions) : Compiles(definitions[i].Pattern)

\* The first-match-wins verdict over a list, default deny.
VerdictOver(list, pattern(_), document) ==
    LET m == MatchingRules(list, pattern, document)
    IN IF m = {} THEN <<FALSE, "no matching rule">>
       ELSE <<list[Min(m)].Allow, list[Min(m)].Description>>

\* C1: Evaluate(pack, payload) computes its verdict from the rules of the pack
\* it is handed, whatever the compiled-rule table held for pack.ID before:
\* with a compilable pack, a parsable payload and an uncancelled token the
\* result is the first-match-wins verdict over pack.Rules.
C1_VerdictFromHandedPack ==
    (/\ last.op = "Evaluate"
     /\ last.ctx = Background
     /\ Parses(last.payload)
     /\ AllCompile(last.pack.Rules))
    => /\ last.err = Nil
       /\ <<last.allowed, last.reason>> =
              VerdictOver(last.pack.Rules, PatternOf, DocumentOf(last.payload))

\* C2: Evaluate is deterministic: two Evaluate calls with the same rulepack and
\* payload and an uncancelled token, with any Preload calls in between,
\* return the same (allowed, reason).
C2_Deterministic ==
    [][(/\ last.op = "Evaluate" /\ last'.op = "Evaluate"
        /\ last.ctx = Background /\ last'.ctx = Background
        /\ last'.pack = last.pack /\ last'.payload = last.payload)
       => (last'.allowed = last.allowed /\ last'.reason = last.reason)]_evalVars

\* The last call was an Evaluate that got past its preload step: the list it
\* iterated is the one the table holds for pack.ID.
Iterated == last.op = "Evaluate" /\ last.pack.ID \in DOMAIN rules /\ last.err.kind # "compile rule"

\* C3: first match wins: with a payload that parses as a JSON object and an
\* uncancelled token, Evaluate returns (Allow, Description) of the first rule
\* of the list it iterates that names a matching string field, and checks no
\* rule after it.
C3_FirstMatchWins ==
    (/\ Iterated
     /\ last.ctx = Background
     /\ last.payload # "" /\ ~Unmarshal(last.payload).err)
    => LET list == rules[last.pack.ID]
           m == MatchingRules(list, ExpressionOf, Unmarshal(last.payload).document)
       IN m # {} =>
            /\ last.err = Nil
            /\ last.allowed = list[Min(m)].Allow
            /\ last.reason = list[Min(m)].Description
            /\ last.checked = Min(m)

\* C3 witness: two rules on the same field with opposite verdicts both match.
C3_Witness ==
    /\ Iterated /\ last.ctx = Background /\ last.payload = PayloadSecret
    /\ LET list == rules[last.pack.ID]
           m == MatchingRules(list, ExpressionOf, Unmarshal(last.payload).document)
       IN /\ Cardinality(m) = 2
          /\ \E i \in m, j \in m : i < j /\ list[i].Allow # list[j].Allow
    /\ last.err = Nil

\* C4 as stated: whenever the payload parses (or is empty) and no rule of the
\* list has a matching string field, Evaluate returns (false, "no matching
\* rule") and no error.
C4_DefaultDenyAlways ==
    (/\ Iterated
     /\ Parses(last.payload)
     /\ MatchingRules(rules[last.pack.ID], ExpressionOf, DocumentOf(last.payload)) = {})
    => /\ last.err = Nil
       /\ last.allowed = FALSE
       /\ last.reason = "no matching rule"

\* C4 amended: when the payload parses (or is empty) and no rule of the
\* compiled list has a matching string field, every rule is skipped in turn
\* and Evaluate returns (false, "no matching rule") and no error, unless the
\* token is cancelled before one of the rule checks: then it returns the
\* cancellation error at that check.
C4_DefaultDeny ==
    (/\ Iterated
     /\ Parses(last.payload)
     /\ MatchingRules(rules[last.pack.ID], ExpressionOf, DocumentOf(last.payload)) = {})
    => LET n == Len(rules[last.pack.ID])
       IN IF last.ctx >= 0 /\ last.ctx < n
          THEN /\ last.err = ErrCancelled
               /\ last.allowed = FALSE
               /\ last.checked = last.ctx
          ELSE /\ last.err = Nil
               /\ last.allowed = FALSE
               /\ last.reason = "no matching rule"
               /\ last.checked = n

\* C4 witness: a two-rule list was exhausted without a match on a field that
\* holds a number.
C4_Witness ==
    /\ Iterated /\ last.err = Nil /\ last.reason = "no matching rule"
    /\ Len(rules[last.pack.ID]) = 2 /\ last.checked = 2
    /\ last.payload = PayloadNumber

\* C7: Preload is all-or-nothing: a batch with a pattern that does not compile
\* returns the error naming the first failing rule id and leaves the whole
\* table as it was; a batch that compiles replaces the list of its id, and
\* only that one, by the compiled batch.
C7_PreloadAllOrNothing ==
    [][last'.op = "Preload" =>
        LET id == last'.pack.ID
            definitions == last'.pack.Rules
            bad == {i \in 1..Len(definitions) : ~Compiles(definitions[i].Pattern)}
        IN IF bad # {}
           THEN /\ last'.err = ErrCompile(definitions[Min(bad)].ID)
                /\ rules' = rules
           ELSE /\ last'.err = Nil
                /\ DOMAIN rules' = DOMAIN rules \cup {id}
                /\ rules'[id] = [i \in 1..Len(definitions) |-> Rule(definitions[i])]
                /\ \A other \in DOMAIN rules \ {id} : rules'[other] = rules[other]]_evalVars

\* C7 witness: a batch whose second pattern fails, on an id that already has
\* a compiled list from an earlier batch.
C7_Witness ==
    /\ last.op = "Preload" /\ last.err # Nil
    /\ Len(last.pack.Rules) = 2 /\ Compiles(last.pack.Rules[1].Pattern)
    /\ last.pack.ID \in DOMAIN rules /\ Len(rules[last.pack.ID]) = 1

\* C19: cancellation is checked before every rule check: when the token is
\* already cancelled as rule i is about to be checked (no rule before i
\* having matched), Evaluate returns the cancellation error with exactly
\* i - 1 rules checked: rule i and the rules after it are not checked, even
\* if one of them would match.
C19_CancelBeforeEachRule ==
    (/\ Iterated
     /\ Parses(last.payload)
     /\ last.ctx >= 0 /\ last.ctx < Len(rules[last.pack.ID])
     /\ \A j \in MatchingRules(rules[last.pack.ID], ExpressionOf, DocumentOf(last.payload)) :
            j > last.ctx)
    => /\ last.err = ErrCancelled
       /\ last.allowed = FALSE
       /\ last.reason = "context cancelled"
       /\ last.checked = last.ctx

\* C19 witness: the token fired after the first rule was checked and skipped,
\* and the second rule, which matches the payload, was not checked.
C19_Witness ==
    /\ Iterated /\ last.ctx = 1 /\ last.err = ErrCancelled /\ last.checked = 1
    /\ Len(rules[last.pack.ID]) = 2
    /\ MatchingRules(rules[last.pack.ID], ExpressionOf, DocumentOf(last.payload)) = {2}

\* C29: Evaluate goes preload, parse, iterate. For an id the table does not
\* hold, a pack with a pattern that does not compile gives the compile
\* error of the first such rule, whatever the payload and the token, and
\* commits nothing; a pack that compiles is committed, also when the payload
\* then fails to parse. A payload that does not parse gives the parse error
\* with no rule checked, whatever the token; and with an empty compiled list
\* a payload that parses gives no error, whatever the token.
C29_PreloadParseIterate ==
    [][last'.op = "Evaluate" =>
        LET id == last'.pack.ID
            defs == last'.pack.Rules
            bad == {i \in 1..Len(defs) : ~Compiles(defs[i].Pattern)}
        IN IF id \notin DOMAIN rules /\ bad # {}
           THEN /\ last'.err = ErrCompile(defs[Min(bad)].ID)
                /\ rules' = rules
           ELSE /\ IF id \in DOMAIN rules THEN rules' = rules
                   ELSE /\ DOMAIN rules' = DOMAIN rules \cup {id}
                        /\ rules'[id] = [i \in 1..Len(defs) |-> Rule(defs[i])]
                        /\ \A k \in DOMAIN rules : rules'[k] = rules[k]
                /\ (~Parses(last'.payload) =>
                        /\ last'.err = ErrParse /\ last'.reason = "payload parse error"
                        /\ last'.checked = 0)
                /\ ((Parses(last'.payload) /\ Len(rules'[id]) = 0) =>
                        last'.err = Nil /\ last'.reason = "no matching rule")]_vars

\* C29 witness: a malformed payload under a cancelled token met a pack, not
\* yet in the table, whose pattern does not compile: the compile error.
C29_Witness ==
    /\ last.op = "Evaluate" /\ last.err = ErrCompile("rule-2")
    /\ last.payload = PayloadNotJSON /\ last.ctx = 0
    /\ last.pack.ID \notin DOMAIN rules

\* ------------------------------------------------------------------------
\* Properties of the RuleCache
\* ------------------------------------------------------------------------

\* C5: after Set(key, value) with TTL d at time t and no later Set or
\* Invalidate of the key, a Get at a clock reading up to and including t + d
\* returns (value, found); a Get strictly after t + d returns not-found and
\* leaves the key absent, and the first such Get finds the entry still stored
\* and removes it, so that Len drops by one.
C5_GetWithinTTL ==
    /\ \A k \in RulepackIDs :
          (written[k].set /\ written[k].misses = 0) => k \in DOMAIN entries
    /\ (got.op = "Get" /\ written[got.key].set) =>
          LET w == written[got.key]
          IN IF got.at <= w.at + w.ttl
             THEN got.ok /\ got.value = w.value /\ CacheLen(entries) = got.before
             ELSE /\ ~got.ok
                  /\ got.key \notin DOMAIN entries
                  /\ w.misses >= 1
                  /\ (w.misses = 1 => CacheLen(entries) = got.before - 1)

\* C5 witness: the first Get after the expiry instant missed and took the
\* entry out, next to an entry of the other key.
C5_Witness ==
    /\ got.op = "Get" /\ ~got.ok
    /\ written[got.key].set /\ written[got.key].misses = 1
    /\ got.at > written[got.key].at + written[got.key].ttl
    /\ CacheLen(entries) = got.before - 1
    /\ CacheLen(entries) = 1

\* C17: a cache hit does not extend expiry: a Get that finds its key leaves
\* every entry, its value and its expiresAt, as it was; so after
\* Set(key, value) with TTL d at time t a Get after t + d is not-found,
\* however many hits there were in between.
C17_HitKeepsExpiry ==
    /\ []((got.op = "Get" /\ written[got.key].set
           /\ got.at > written[got.key].at + written[got.key].ttl) => ~got.ok)
    /\ [][(got'.op = "Get" /\ got'.ok) => entries' = entries]_vars

\* C17 witness: a Get after the expiry instant missed the key that a Get had
\* hit after the Set and a clock tick.
C17_Witness ==
    /\ got.op = "Get" /\ ~got.ok
    /\ written[got.key].set /\ written[got.key].hits >= 1 /\ written[got.key].ttl > 0
    /\ got.at > written[got.key].at + written[got.key].ttl

\* C21: a per-call TTL override applies to that entry only: after
\* Set(k, v, d') the entry of k is (v, clock at the call + d'), and after a
\* Set without an override it is (v, clock at the call + the default TTL),
\* whatever overrides earlier Set calls carried, on k or on another key.
C21_OverrideThisEntryOnly ==
    got.op = "Set" =>
        /\ got.key \in DOMAIN entries
        /\ entries[got.key] =
              [value |-> got.value,
               expiresAt |-> got.at + (IF Len(got.ttlOverride) > 0
                                       THEN got.ttlOverride[1] ELSE CacheTTL)]

\* C21 witness: a Set without an override has replaced the entry that a Set
\* with the override 0 had given the same key, next to an entry of the other
\* key that holds its override.
C21_Witness ==
    /\ got.op = "Set" /\ got.ttlOverride = <<>> /\ got.prior = <<0>> /\ got.had
    /\ entries[got.key].expiresAt = got.at + CacheTTL
    /\ \E k \in DOMAIN entries \ {got.key} :
          written[k].ttlOverride = <<0>> /\ entries[k].expiresAt = written[k].at

\* C22: absent keys are not found: a Get of a key that was never Set, or
\* whose last Set was followed by an Invalidate, returns not-found; after
\* Invalidate(k) the key is not stored, whether its entry had expired or not,
\* Len has dropped by one if k was stored and not at all if it was absent,
\* and the entries of the other keys are as they were.
C22_AbsentNotFound ==
    /\ []((got.op = "Get" /\ ~written[got.key].set) => (~got.ok /\ got.value = NoPack))
    /\ [](got.op = "Invalidate" =>
            /\ got.key \notin DOMAIN entries
            /\ CacheLen(entries) = got.before - (IF got.had THEN 1 ELSE 0))
    /\ [][got'.op = "Invalidate" =>
            \A k \in RulepackIDs \ {got'.key} :
                /\ k \in DOMAIN entries' <=> k \in DOMAIN entries
                /\ k \in DOMAIN entries => entries'[k] = entries[k]]_vars

\* C22 witness: Invalidate removed an entry before any entry could expire
\* and left the entry of the other key.
C22_Witness ==
    /\ got.op = "Invalidate" /\ got.had /\ got.at = 1 /\ now = 1
    /\ got.before = 2 /\ CacheLen(entries) = 1

Unexpired(id) == id \in DOMAIN entries /\ now <= entries[id].expiresAt

\* This step is the return of a Governor.Evaluate call.
EvaluateReturns == ret'.n # ret.n /\ ret'.op = "Evaluate"

\* ... of a call that began in this very step: it sent no fetch.
EvaluateRuns == EvaluateReturns /\ calls[ret'.proc].pc # "fetching"

\* This step is the return of a Governor.Queue call.
QueueReturns == ret'.n # ret.n /\ ret'.op = "Queue"

\* C6: every Governor.Evaluate call, after any sequence of Evaluate, Queue,
\* WithOffline and Close calls and with any storage backend, ends by returning
\* a result or an error: no goroutine ever panics.
C6_NeverPanics == ~panicked

\* C8: offline with a cold cache: when the offline flag is set and the cache
\* holds no unexpired entry for the requested id, Evaluate returns the error
\* wrapping ErrOffline that names the id, sends no fetch, adds nothing to the
\* cache and writes no audit record.
C8_OfflineColdCache ==
    [][/\ EvaluateRuns /\ offline /\ ~Unexpired(ret'.req.RulepackID) =>
            /\ ret'.err = ErrOffline(ret'.req.RulepackID)
            /\ ~ret'.fetched /\ ~ret'.put
            /\ storage' = storage
            /\ \A k \in DOMAIN entries' : k \in DOMAIN entries /\ entries'[k] = entries[k]
       /\ \A p \in Procs :
            (calls'[p].pc = "fetching" /\ calls[p].pc # "fetching") =>
                ~offline /\ ~Unexpired(calls'[p].req.RulepackID)]_vars

\* C8 witness: offline, the rulepack that was cached and compiled earlier has
\* expired and the call that found it so has failed with ErrOffline.
C8_Witness ==
    /\ ret.op = "Evaluate" /\ ret.err = ErrOffline("local")
    /\ offline
    /\ "local" \in DOMAIN rules /\ "local" \notin DOMAIN entries

\* C9: offline with a warm cache: when the offline flag is set and the cache
\* holds an unexpired rulepack for the requested id, Evaluate (payload
\* parsable, token live) succeeds with the first-match-wins verdict of that
\* cached rulepack and sends no fetch.
C9_OfflineWarmCache ==
    [][(/\ EvaluateRuns /\ offline /\ Unexpired(ret'.req.RulepackID)
        /\ ret'.ctx = Background /\ Parses(ret'.req.Payload))
       => /\ ret'.err = Nil
          /\ ~ret'.fetched
          /\ <<ret'.allowed, ret'.reason>> =
                VerdictOver(entries[ret'.req.RulepackID].value.Rules, PatternOf,
                            DocumentOf(ret'.req.Payload))]_vars

\* C10: Queue never blocks and the queue never exceeds its capacity: in
\* offline mode a Queue call on a queue that holds OfflineQueueSize requests
\* returns the queue-full error and leaves the queue as it is, and a Queue
\* call on a queue with room appends exactly its request and returns nil.
C10_QueueNeverBlocks ==
    /\ [](Len(offlineChan) <= OfflineQueueSize)
    /\ [](\A req \in DecisionRequest : ~Queue(offlineChan, offline, req).blocked)
    /\ [][(QueueReturns /\ offline) =>
            IF Len(offlineChan) >= OfflineQueueSize
            THEN ret'.err = ErrQueueFull /\ offlineChan' = offlineChan
            ELSE ret'.err = Nil /\ offlineChan' = Append(offlineChan, ret'.req)]_vars

\* C10 witness: a Queue call was turned away from a full queue.
C10_Witness ==
    /\ ret.op = "Queue" /\ ret.err = ErrQueueFull
    /\ Len(offlineChan) = OfflineQueueSize /\ offline

\* C11: Queue requires offline mode: whenever the offline flag is false, Queue
\* returns the "queue requires offline mode" error and leaves the queue as
\* it is, however much room the queue has.
C11_QueueRequiresOffline ==
    [][(QueueReturns /\ ~offline) =>
            ret'.err = ErrQueueOffline /\ offlineChan' = offlineChan]_vars

\* C11 witness: with the flag off, a Queue call was refused by a queue that
\* holds a request and has room for more.
C11_Witness ==
    /\ ret.op = "Queue" /\ ret.err = ErrQueueOffline /\ ~offline
    /\ Len(offlineChan) > 0 /\ Len(offlineChan) < OfflineQueueSize

\* C12: audit failure never fails a decision: whenever Governor.Evaluate has
\* called the store's Put, whether Put succeeded or returned an error,
\* Evaluate returns a nil error and the (allowed, reason) its evaluator
\* found: the first-match-wins verdict of the compiled list over the payload.
C12_AuditFailureSwallowed ==
    [][(EvaluateReturns /\ ret'.put) =>
            /\ ret'.err = Nil
            /\ ret'.req.RulepackID \in DOMAIN rules'
            /\ <<ret'.allowed, ret'.reason>> =
                  VerdictOver(rules'[ret'.req.RulepackID], ExpressionOf,
                              DocumentOf(ret'.req.Payload))]_vars

\* C12 witness: Put returned an error and the decision came back allowed,
\* with no error.
C12_Witness ==
    /\ ret.op = "Evaluate" /\ ret.put /\ ret.putErr = ErrPut
    /\ ret.err = Nil /\ ret.allowed /\ ret.reason = "allows data"

\* C13: a failed decision writes no audit record: when Governor.Evaluate
\* returns an error (payload parse error, compile failure, cancellation,
\* offline-unavailable or fetch error) it returns the empty result, the
\* store's Put was not called and the store is as it was; for a malformed
\* payload no rule was checked.
C13_FailedDecisionNoAudit ==
    [][(EvaluateReturns /\ ret'.err # Nil) =>
            /\ ret'.err \in {ErrParse, ErrCompile("rule-2"), ErrCancelled, ErrFetch,
                             ErrOffline(ret'.req.RulepackID)}
            /\ ~ret'.put
            /\ storage' = storage
            /\ ret'.allowed = FALSE /\ ret'.reason = ""
            /\ (ret'.req.Payload = PayloadNotJSON => ret'.checked = 0)]_vars

\* C13 witness: a malformed payload was turned away with the parse error by
\* a Governor whose store holds the record of an earlier decision.
C13_Witness ==
    /\ ret.op = "Evaluate" /\ ret.err = ErrParse /\ ret.req.Payload = PayloadNotJSON
    /\ ret.checked = 0 /\ ~ret.put
    /\ Cardinality(DOMAIN storage.records) = 1

\* C14: the replay worker exists only if offline mode was on at construction,
\* and WithOffline changes only the offline flag: there is a worker (waiting,
\* replaying or exited on cancellation of its context) exactly when the
\* Governor was built offline, and a step that changes the flag leaves the
\* goroutines, the cache, the compiled rules, the queue and everything else
\* as they were.
C14_WithOfflineOnlyFlag ==
    /\ [](calls["worker"].pc # "none" <=> cfg.OfflineMode)
    /\ [][offline' # offline =>
            UNCHANGED <<calls, entries, rules, offlineChan, storage, ctxDone, panicked, ret>>]_vars

\* C14 witness: a Governor built online was switched to offline mode and
\* holds a queued request, with no worker; the flag was switched after a
\* Queue call had been refused.
C14_Witness ==
    /\ ~cfg.OfflineMode /\ offline /\ calls["worker"].pc = "none"
    /\ Len(offlineChan) = 1 /\ ret.op = "Queue" /\ ret.err = Nil

\* C15: on a Governor built online and switched to offline mode, nothing
\* drains the queue: its length never decreases, it changes only by a
\* successful Queue call appending its request, a Queue call in offline mode
\* succeeds while fewer than OfflineQueueSize requests are queued (so exactly
\* OfflineQueueSize calls succeed) and fails with the queue-full error ever
\* after.
C15_NothingDrains ==
    [][~cfg.OfflineMode =>
        /\ Len(offlineChan') >= Len(offlineChan)
        /\ (offlineChan' # offlineChan =>
                /\ QueueReturns /\ ret'.err = Nil
                /\ offlineChan' = Append(offlineChan, ret'.req))
        /\ ((QueueReturns /\ offline) =>
                IF Len(offlineChan) < OfflineQueueSize
                THEN ret'.err = Nil /\ Len(offlineChan') = Len(offlineChan) + 1
                ELSE ret'.err = ErrQueueFull /\ offlineChan' = offlineChan)
        /\ (Len(offlineChan) = OfflineQueueSize => offlineChan' = offlineChan)]_vars

\* C15 witness: the queue of a Governor built online is full and a further
\* Queue call has failed with the queue-full error.
C15_Witness ==
    /\ ~cfg.OfflineMode /\ offline
    /\ Len(offlineChan) = OfflineQueueSize
    /\ ret.op = "Queue" /\ ret.err = ErrQueueFull

\* C16: replay is fire-and-forget: a request leaves the queue only by the
\* waiting worker taking the oldest one and passing it, in that step, to
\* Governor.Evaluate with context.Background() (the call returns at once,
\* suspends in its fetch, or panics in the store); the worker runs one
\* Evaluate at a time, always under context.Background(), also once the
\* construction context is cancelled; and the return of a replay, whatever
\* its error, puts nothing back on the queue.
C16_ReplayFireAndForget ==
    /\ [](calls["worker"].ctx = Background)
    /\ [][/\ (Len(offlineChan') < Len(offlineChan) =>
                /\ calls["worker"].pc = "waiting"
                /\ offlineChan' = Tail(offlineChan)
                /\ \/ calls'["worker"] = Fetching(Head(offlineChan), Background)
                   \/ /\ EvaluateReturns /\ ret'.proc = "worker"
                      /\ ret'.req = Head(offlineChan) /\ ret'.ctx = Background
                      /\ calls'["worker"].pc = "waiting"
                   \/ panicked')
          /\ ((EvaluateReturns /\ ret'.proc = "worker") =>
                /\ ret'.ctx = Background
                /\ calls'["worker"].pc = "waiting"
                /\ \/ offlineChan' = offlineChan /\ calls["worker"] = Fetching(ret'.req, Background)
                   \/ offlineChan' = Tail(offlineChan) /\ ret'.req = Head(offlineChan))]_vars

\* C16 witness: offline with a cold cache, the worker replayed the only queued
\* request after its construction context was cancelled; the replay failed
\* with ErrOffline and the request is gone.
C16_Witness ==
    /\ ret.op = "Evaluate" /\ ret.proc = "worker" /\ ret.err = ErrOffline(ret.req.RulepackID)
    /\ ret.ctx = Background /\ ctxDone
    /\ offlineChan = <<>> /\ calls["worker"].pc = "waiting"

\* The control plane would answer this fetch with a rulepack.
Answered(id, ctx) == id = "local" /\ served # "down" /\ ctx # 0

\* C18: fetch on miss while online: a Governor.Evaluate that finds no
\* unexpired entry for its id while the offline flag is off sends a fetch,
\* and no call sends one otherwise. When the fetch succeeds the rulepack it
\* brought is stored under the requested id, to expire CacheTTL after the
\* store, the other entries staying as they are (the next Evaluate up to
\* that time is a hit and sends no fetch); when it fails, Evaluate returns
\* the fetch error, with no audit record, and the cache is as it was.
C18_FetchOnMiss ==
    [][/\ \A p \in Procs :
            (calls'[p].pc = "fetching" /\ calls[p].pc # "fetching") =>
                ~offline /\ ~Unexpired(calls'[p].req.RulepackID)
       /\ (EvaluateRuns => (offline \/ Unexpired(ret'.req.RulepackID)))
       /\ \A p \in Procs :
            (calls[p].pc = "fetching" /\ calls'[p].pc # "fetching") =>
                LET id == calls[p].req.RulepackID
                IN IF Answered(id, calls[p].ctx)
                   THEN /\ DOMAIN entries' = DOMAIN entries \cup {id}
                        /\ entries'[id] = [value |-> Served(served), expiresAt |-> now + CacheTTL]
                        /\ \A k \in DOMAIN entries \ {id} : entries'[k] = entries[k]
                        /\ (panicked' \/ (EvaluateReturns /\ ret'.fetched /\ ret'.err # ErrFetch))
                   ELSE /\ EvaluateReturns /\ ret'.fetched
                        /\ ret'.err = ErrFetch /\ ~ret'.put
                        /\ entries' = entries]_vars

\* C18 witness: a call that fetched version 2 has returned its verdict, and
\* the rulepack sits in the cache with the default TTL ahead of it; the
\* compiled rules are those of version 2 too.
C18_Witness ==
    /\ ret.op = "Evaluate" /\ ret.fetched /\ ret.err = Nil /\ ret.reason = "allows data"
    /\ "local" \in DOMAIN entries
    /\ entries["local"] = [value |-> PackV2, expiresAt |-> now + CacheTTL]

\* C20: cancellation never skips the audit write: whenever Governor.Evaluate
\* returns a verdict, also under a token cancelled after the last rule
\* check, it has called the store's Put, once; when Put succeeded the store
\* holds, under a key made of the request's rulepack id, ":" and the time,
\* the record of this verdict, has no other new key and its other records
\* are unchanged.
C20_AuditDespiteCancel ==
    [][(EvaluateReturns /\ ret'.err = Nil) =>
            /\ ret'.put
            /\ IF ret'.putErr # Nil THEN storage' = storage
               ELSE \E k \in DOMAIN storage'.records :
                        /\ Len(k) = 3 /\ k[1] = ret'.req.RulepackID /\ k[2] = ":"
                        /\ storage'.records[k].rulepack_id = ret'.req.RulepackID
                        /\ storage'.records[k].payload = ret'.req.Payload
                        /\ storage'.records[k].allowed = ret'.allowed
                        /\ storage'.records[k].reason = ret'.reason
                        /\ DOMAIN storage'.records = DOMAIN storage.records \cup {k}
                        /\ \A j \in DOMAIN storage.records \ {k} :
                                storage'.records[j] = storage.records[j]]_vars

\* C20 witness: a call whose token was cancelled once the only rule had been
\* checked returned its verdict, and the store holds a second record.
C20_Witness ==
    /\ ret.op = "Evaluate" /\ ret.ctx = 1 /\ ret.err = Nil /\ ret.checked = 1 /\ ret.put
    /\ Cardinality(DOMAIN storage.records) = 2

\* This step is the return of a Governor.Close call.
CloseReturns == ret'.n # ret.n /\ ret'.op = "Close"

\* C30: the replay worker stops on cancellation: once the context given to
\* NewGovernor is cancelled the worker, if there is one, exits in the end
\* (or the process has died of a panic); once it has exited it stays so, no
\* request leaves the queue and no replay returns, while Queue in offline
\* mode goes on appending until the queue is full; and Governor.Close leaves
\* the worker and the queue as they are.
C30_WorkerStops ==
    /\ ctxDone ~> (calls["worker"].pc \in {"exited", "none"} \/ panicked)
    /\ [][calls["worker"].pc = "exited" =>
            /\ calls'["worker"].pc = "exited"
            /\ \/ offlineChan' = offlineChan
               \/ QueueReturns /\ ret'.err = Nil /\ offlineChan' = Append(offlineChan, ret'.req)
            /\ ~(EvaluateReturns /\ ret'.proc = "worker")
            /\ ((QueueReturns /\ offline) =>
                    IF Len(offlineChan) < OfflineQueueSize
                    THEN ret'.err = Nil /\ offlineChan' = Append(offlineChan, ret'.req)
                    ELSE ret'.err = ErrQueueFull)]_vars
    /\ [][CloseReturns =>
            calls' = calls /\ offlineChan' = offlineChan /\ ctxDone' = ctxDone]_vars

\* C30 witness: the worker has exited with a request left in the queue, and
\* a Queue call after that has filled the queue.
C30_Witness ==
    /\ calls["worker"].pc = "exited" /\ ctxDone
    /\ Len(offlineChan) = OfflineQueueSize
    /\ ret.op = "Queue" /\ ret.err = Nil /\ offline

\* Both goroutines are inside a fetch for the same rulepack id.
BothFetching ==
    /\ \A p \in Procs : calls[p].pc = "fetching"
    /\ calls["caller"].req.RulepackID = calls["worker"].req.RulepackID

\* C27: no single-flight on a cache miss: of several Evaluate calls that miss
\* the cache for one id and fetch at the same time, each one that decides
\* (payload parsable, token live) returns the first-match-wins verdict of the
\* rulepack its own fetch returned, and leaves that rulepack in the cache.
C27_EachFetchDecides ==
    [][(/\ EvaluateReturns /\ ret'.fetched /\ ret'.err = Nil
        /\ ret'.ctx = Background /\ Parses(ret'.req.Payload))
       => /\ <<ret'.allowed, ret'.reason>> =
                VerdictOver(Served(served).Rules, PatternOf, DocumentOf(ret'.req.Payload))
          /\ entries'[ret'.req.RulepackID].value = Served(served)]_vars

\* C24: the stores are safe under concurrent use: whatever way the Put, Get,
\* Iter, Delete and Close calls of several goroutines interleave, on any
\* built-in backend, no call faults and no field is read outside the lock
\* while another goroutine writes it.
C24_StoreSafe == ~panicked /\ ~raced

\* ------------------------------------------------------------------------
\* Properties of the RuleCache under concurrent calls
\* ------------------------------------------------------------------------
\* Goroutine g is in the eviction step of a Get and gives up the write lock.
EvictionBy(g) == thr[g].op = "Get" /\ thr[g].pc = "locked" /\ thr'[g].pc = "unlocked"

\* C25: lazy eviction never loses a concurrent Set: the eviction step of a
\* Get, taken under the write lock, removes its key only when the entry
\* stored then is expired and changes nothing else; and the entry that a Set
\* stored under the key after the Get gave up the read lock, when unexpired
\* at the eviction step, is still stored after it.
C25_EvictionKeepsSet ==
    [][\A g \in Thr :
          EvictionBy(g) =>
             LET key == thr[g].key
             IN /\ \/ entries' = entries
                   \/ /\ key \in DOMAIN entries
                      /\ expired(entries[key], now)
                      /\ entries' = [k \in DOMAIN entries \ {key} |-> entries[k]]
                /\ (thr[g].entry # NoEntry /\ ~expired(thr[g].entry, now))
                      => key \in DOMAIN entries' /\ entries'[key] = thr[g].entry]_vars

\* C25 happens: a Get saw an expired entry, a Set stored a fresh one before
\* the Get's eviction step, and after that step the fresh entry is stored.
C25_Witness ==
    \E g \in Thr :
        /\ thr[g].op = "Get" /\ thr[g].pc = "unlocked"
        /\ thr[g].entry # NoEntry /\ ~expired(thr[g].entry, now)
        /\ thr[g].key \in DOMAIN entries /\ entries[thr[g].key] = thr[g].entry

\* Goroutine g has called RLock or Lock and the call cannot return.
Waits(g) ==
    \/ thr[g].pc = "wantR" /\ ~CanRLock(mu)
    \/ thr[g].pc = "wantW" /\ ~CanLock(mu)

Holds(g) == mu.writer = g \/ g \in mu.readers

C28_OneCommittedList ==
    /\ [](\A g \in Thr :
            (thr[g].op = "Evaluate" /\ thr[g].pc = "iterate") =>
                /\ thr[g].list \in committed[thr[g].key]
                /\ thr[g].seen = SubSeq(thr[g].list, 1, Len(thr[g].seen)))
    /\ [][\A g \in Thr :
            (rules' # rules /\ thr[g].pc = "iterate") =>
                thr'[g].pc = "iterate" /\ thr'[g].list = thr[g].list]_vars

\* C28 happens: an Evaluate has visited every rule of its list, a list of
\* two rules, and another list was stored for the id in the meantime.
C28_Witness ==
    \E g \in Thr :
        /\ thr[g].op = "Evaluate" /\ thr[g].pc = "iterate"
        /\ Len(thr[g].list) = 2 /\ thr[g].seen = thr[g].list
        /\ rules[thr[g].key] # thr[g].list

\* ------------------------------------------------------------------------
\* Properties of the Governor: audit trail, fail-closed decisions, offline
\* cache, replay order
\* ------------------------------------------------------------------------
Records(store) == Cardinality(DOMAIN store.records)

\* C31: every successful decision leaves its own audit record: an Evaluate
\* that returns a verdict, on a store whose Put succeeded, adds one record to
\* the store and overwrites none, so that n decisions leave n records.
C31_OneRecordPerDecision ==
    [][(EvaluateReturns /\ ret'.err = Nil /\ ret'.put /\ ret'.putErr = Nil)
          => Records(storage') = Records(storage) + 1]_vars

\* C32: decisions fail closed: an Evaluate returns allowed = TRUE only with no
\* error and with a rule of the list it evaluated that allows and matches a
\* string field of the payload under its id; an Evaluate that returns an
\* error (offline, fetch, compile, parse, cancellation) returns the zero
\* result, which does not allow.
C32_FailClosed ==
    [][EvaluateReturns =>
          /\ ret'.allowed =>
                /\ ret'.err = Nil
                /\ Parses(ret'.req.Payload)
                /\ ret'.req.RulepackID \in DOMAIN rules'
                /\ \E i \in MatchingRules(rules'[ret'.req.RulepackID], ExpressionOf,
                                           DocumentOf(ret'.req.Payload)) :
                      /\ rules'[ret'.req.RulepackID][i].Allow
                      /\ rules'[ret'.req.RulepackID][i].Description = ret'.reason
          /\ ret'.err # Nil => ~ret'.allowed /\ ret'.reason = ""]_vars

\* C32 happens: an Evaluate has allowed a request.
C32_Witness == ret.op = "Evaluate" /\ ret.allowed /\ ret.err = Nil

\* The cache after a step holds nothing that it did not hold before it.
Shrinks ==
    /\ DOMAIN entries' \subseteq DOMAIN entries
    /\ \A k \in DOMAIN entries' : entries'[k] = entries[k]

\* A fetch comes back in this step.
FetchEnds == \E p \in Procs : calls[p].pc = "fetching" /\ calls'[p].pc # "fetching"

\* C33 as stated: while the offline flag stays true no Governor operation
\* adds or refreshes a cache entry.
C33_OfflineCacheShrinks == [][(offline /\ offline') => Shrinks]_vars

\* C33, amended: while the offline flag stays true the cache changes only by
\* losing entries, except when a fetch that was sent before the flag was set
\* comes back and stores its rulepack; and an Evaluate that starts offline
\* for an id whose entry is gone or expired sends no fetch and fails with the
\* offline-unavailable error.
C33_OfflineCacheShrinksButFetch ==
    /\ [][(offline /\ offline' /\ ~FetchEnds) => Shrinks]_vars
    /\ [][(EvaluateRuns /\ offline /\ ~Unexpired(ret'.req.RulepackID))
            => /\ ret'.err = ErrOffline(ret'.req.RulepackID)
               /\ ~ret'.fetched
               /\ ret'.req.RulepackID \notin DOMAIN entries']_vars

\* C33 happens: offline, the rulepack that was cached for "local" has been
\* evicted and the Evaluate that found it expired has failed.
C33_Witness ==
    /\ offline
    /\ "local" \in DOMAIN rules
    /\ "local" \notin DOMAIN entries
    /\ ret.op = "Evaluate" /\ ret.err = ErrOffline("local")

\* The worker takes a request from the channel in this step.
Dequeues == Len(offlineChan') < Len(offlineChan)

\* The worker's replay of request r begins in this step: it returns at once
\* or waits for its fetch.
ReplayBegins(r) ==
    \/ EvaluateReturns /\ ret'.proc = "worker" /\ ret'.req = r /\ calls'["worker"].pc = "waiting"
    \/ calls'["worker"] = Fetching(r, Background) /\ ret' = ret

\* C34: replay drains in order and completely, on a Governor built offline
\* whose context is never cancelled and whose Evaluate calls return: a
\* request in the channel is received in the end, the oldest first, by a
\* worker that is in no other replay; each receive frees one slot and begins
\* one replay of the request received; a replay that waits for its fetch
\* returns, once, for that request; a full channel gets room again; and Queue
\* only appends.
C34_ReplayDrains ==
    /\ []<><<Dequeues>>_vars \/ <>[](Len(offlineChan) = 0) \/ <>panicked
    /\ (calls["worker"].pc = "fetching") ~> (calls["worker"].pc = "waiting" \/ panicked)
    /\ (Len(offlineChan) = OfflineQueueSize) ~> (Len(offlineChan) < OfflineQueueSize \/ panicked)
    /\ [][Dequeues =>
            /\ calls["worker"].pc = "waiting"
            /\ offlineChan' = Tail(offlineChan)
            /\ panicked' \/ ReplayBegins(Head(offlineChan))]_vars
    /\ [][(EvaluateReturns /\ ret'.proc = "worker") =>
            \/ Dequeues /\ ret'.req = Head(offlineChan)
            \/ /\ calls["worker"].pc = "fetching" /\ ret'.req = calls["worker"].req
               /\ calls'["worker"].pc = "waiting" /\ offlineChan' = offlineChan]_vars
    /\ [][offlineChan' # offlineChan =>
            \/ Dequeues
            \/ QueueReturns /\ ret'.err = Nil /\ offlineChan' = Append(offlineChan, ret'.req)]_vars

\* C34 happens: the worker has replayed a request and the channel, which
\* holds other requests, has one slot free.
C34_Witness ==
    /\ ret.op = "Evaluate" /\ ret.proc = "worker"
    /\ calls["worker"].pc = "waiting"
    /\ Len(offlineChan) = OfflineQueueSize - 1
    /\ Len(offlineChan) > 0
====
